---- MODULE Spec2Model ----
(***************************************************************************)
(* Model of revpi-rs: the control channel PiControlRaw                     *)
(* (src/src/picontrol/raw.rs), the ioctl bindings it calls                 *)
(* (src/src/picontrol/raw/raw.rs) and the name based facade PiControl      *)
(* (src/src/picontrol.rs).                                                 *)
(*                                                                         *)
(* One TLA+ action is one call of a public method.  The state holds the    *)
(* resource behind /dev/piControl0 (process image, bridge, device table,   *)
(* variable table), the last call with its result, and the transfers the   *)
(* call issued to the resource.  A panic ends the process: no action is    *)
(* enabled afterwards.                                                     *)
(***************************************************************************)
EXTENDS Integers, Sequences, FiniteSets, TLC

(* ---------------- program constants ---------------- *)

KB_PI_LEN == 4096

REV_PI_DEV_CNT_MAX == 64

NAME_BUF_LEN == 32

SEL_BYTE == 8

REV_PI_ERROR_MSG_LEN == 256

U8_BITS == 8

U16_BITS == 16

U32_BITS == 32

U16_MAX == 65535

U8_MAX == 255

(* ---------------- bounds of the model ---------------- *)

\* largest device count the resource is made to report
MaxDevCnt == 66

\* longest name (bytes, terminator excluded) handed to find_variable
MaxNameLen == 33

(* ---------------- input sets ---------------- *)

Addrs == {0, KB_PI_LEN - 1, KB_PI_LEN, U16_MAX}

WordAddrs == {0, KB_PI_LEN - 2, KB_PI_LEN - 1, KB_PI_LEN}

DWordAddrs == {0, KB_PI_LEN - 4, KB_PI_LEN - 3}

Bytes == {0, 42}

Words == {4660, U16_MAX}

\* a u32 is kept as its two 16-bit halves <<hi, lo>> (value = hi * 65536 + lo)
DWords == {<<43707, 52445>>, <<0, 1>>}

DevCounts == {0, 1, REV_PI_DEV_CNT_MAX, REV_PI_DEV_CNT_MAX + 1, MaxDevCnt}

DevAddrs == {0, 1, 31, U8_MAX}

\* the messages the resource holds: bytes without NUL, the terminator excluded
Messages == {<<>>, <<79, 75>>, [i \in 1..(REV_PI_ERROR_MSG_LEN - 1) |-> 69]}

Millis == {0, 1000}

\* the event codes the driver writes back
Events == {1, 2}

Bitfields == {0, 1, 32768, U16_MAX}

Configs == {"none", "A", "B"}

\* a name of n bytes, none of them NUL
PadName(n) == [i \in 1..n |-> 65]

NameLED == <<76, 69, 68>>

NameI == <<73>>

NameW == <<87>>

NameD == <<68>>

NameQ == <<81>>

NameNul == <<76, 0, 68>>

Names == {NameLED, NameI, NameW, NameD, NameQ, NameNul,
          PadName(NAME_BUF_LEN - 1), PadName(NAME_BUF_LEN), PadName(MaxNameLen)}

\* names a &CStr can hold: no interior NUL
CNames == {n \in Names : \A i \in 1..Len(n) : n[i] # 0}

(* ---------------- records ---------------- *)

\* SPIVariable without the name buffer
SPIVariable(a, b, l) == [i16uAddress |-> a, i8uBit |-> b, i16uLength |-> l]

SPIVariable_default == SPIVariable(0, 0, 0)

\* Value::Bit / Byte / Word / DWord
\* (for a DWord, hi holds the upper and n the lower 16 bits)
ValueBit(b) == [tag |-> "Bit", b |-> b, n |-> 0, hi |-> 0]

ValueByte(n) == [tag |-> "Byte", b |-> FALSE, n |-> n, hi |-> 0]

ValueWord(n) == [tag |-> "Word", b |-> FALSE, n |-> n, hi |-> 0]

ValueDWord(hi, lo) == [tag |-> "DWord", b |-> FALSE, n |-> lo, hi |-> hi]

NoValue == [tag |-> "None", b |-> FALSE, n |-> 0, hi |-> 0]

Values == {ValueBit(TRUE), ValueBit(FALSE), ValueByte(42), ValueWord(4660),
           ValueDWord(43707, 52445)}

\* the result of a call
\* kind: "Ok" (returned Ok or a plain value), "Err" (returned Err(err(arg))),
\* "Panic" (the call panicked with message arg), "UB" (undefined behaviour
\* was executed), "Blocked" (the call has not returned yet), "None" (no call
\* yet).  val/hi/flag/var/value/text: the payload.
Res(kind, err, arg, val, hi, flag, var, value) ==
    [kind |-> kind, err |-> err, arg |-> arg, val |-> val, hi |-> hi,
     flag |-> flag, var |-> var, value |-> value, text |-> <<>>]

Ok(val, flag) == Res("Ok", "", "", val, 0, flag, SPIVariable_default, NoValue)

OkUnit == Ok(0, FALSE)

OkDWord(hi, lo) == Res("Ok", "", "", lo, hi, FALSE, SPIVariable_default, NoValue)

OkVar(var) == Res("Ok", "", "", 0, 0, FALSE, var, NoValue)

OkValue(value) == Res("Ok", "", "", 0, 0, FALSE, SPIVariable_default, value)

Err(err, arg, val) ==
    Res("Err", err, arg, val, 0, FALSE, SPIVariable_default, NoValue)

Panic(msg) == Res("Panic", "", msg, 0, 0, FALSE, SPIVariable_default, NoValue)

\* a CString, as its bytes without the terminator
OkText(t) == [Ok(0, FALSE) EXCEPT !.text = t]

Blocked == Res("Blocked", "", "", 0, 0, FALSE, SPIVariable_default, NoValue)

NoResult == Res("None", "", "", 0, 0, FALSE, SPIVariable_default, NoValue)

\* a call: the method and its arguments
Call(op, address, bit, value, hi, flag, name, v) ==
    [op |-> op, address |-> address, bit |-> bit, value |-> value, hi |-> hi,
     flag |-> flag, name |-> name, v |-> v]

NoCall == Call("none", 0, 0, 0, 0, FALSE, <<>>, NoValue)

\* a transfer issued to the resource: an ioctl request or a positioned
\* read/write, with the parameters it carries
Xfer(req, address, bit, value, name, bytes) ==
    [req |-> req, address |-> address, bit |-> bit, value |-> value,
     name |-> name, bytes |-> bytes]

(* ---------------- integer helpers ---------------- *)

Pow2(n) == 2 ^ n

BitOf(byte, bit) == (byte \div Pow2(bit)) % 2

\* bool as u8
bool_as_u8(b) == IF b THEN 1 ELSE 0


\* (variant: r > 1)
u8_gt_1(r) == r > 1

\* r >= 1 of get_bit
u8_ge_1(r) == r >= 1

\* u16::to_le_bytes
u16_to_le_bytes(w) == <<w % 256, w \div 256>>

\* u32::to_le_bytes of the u32 hi * 65536 + lo
u32_to_le_bytes(hi, lo) == <<lo % 256, lo \div 256, hi % 256, hi \div 256>>

\* u16::from_le_bytes
u16_from_le_bytes(b) == b[1] + 256 * b[2]

\* u32::from_le_bytes, as the halves <<hi, lo>>
u32_from_le_bytes(b) == <<b[3] + 256 * b[4], b[1] + 256 * b[2]>>

(* ---------------- the resource behind /dev/piControl0 ---------------- *)

\* The process image is kept sparse: an address outside the domain holds 0.
ImgAt(img, a) == IF a \in DOMAIN img THEN img[a] ELSE 0

ImgPut(img, a, v) ==
    IF v = 0
    THEN [x \in (DOMAIN img) \ {a} |-> img[x]]
    ELSE [x \in (DOMAIN img) \cup {a} |-> IF x = a THEN v ELSE img[x]]

EmptyImage == [x \in {} |-> 0]

PresetImage == [x \in 0..3 |-> CASE x = 0 -> 221 [] x = 1 -> 204
                                 [] x = 2 -> 187 [] OTHER -> 170]

InitImages == {EmptyImage, PresetImage}

\* the variable table of the resource under each configuration
VarTable(cfg) ==
    CASE cfg = "A" ->
           {[name |-> NameLED, var |-> SPIVariable(0, 0, 8)],
            [name |-> NameI, var |-> SPIVariable(0, 7, 1)],
            [name |-> NameW, var |-> SPIVariable(0, 0, 16)],
            [name |-> NameD, var |-> SPIVariable(0, 0, 32)],
            [name |-> PadName(NAME_BUF_LEN - 1),
             var |-> SPIVariable(KB_PI_LEN - 1, 0, 8)]}
      [] cfg = "B" ->
           {[name |-> NameLED, var |-> SPIVariable(KB_PI_LEN - 1, 0, 8)],
            [name |-> NameI, var |-> SPIVariable(KB_PI_LEN - 1, 0, 1)],
            [name |-> NameW, var |-> SPIVariable(KB_PI_LEN - 2, 0, 16)],
            [name |-> NameD, var |-> SPIVariable(KB_PI_LEN - 4, 0, 32)]}
      [] cfg = "C" ->
           {[name |-> NameLED, var |-> SPIVariable(0, 0, 8)],
            [name |-> NameI, var |-> SPIVariable(0, 8, 1)],
            [name |-> NameW, var |-> SPIVariable(0, 7, 1)],
            [name |-> NameQ, var |-> SPIVariable(0, 0, 4)],
            [name |-> NameD, var |-> SPIVariable(0, 0, 64)]}
      [] OTHER -> {}

\* device i of the resource's device table (address, serial number)
SDeviceInfo(i) == [i8uAddress |-> i - 1, i32uSerialNumber |-> 1000 + i]

SDeviceInfo_default == [i8uAddress |-> 0, i32uSerialNumber |-> 0]

\* one outcome of a method: its result, the image afterwards, the transfers
\* it issued
Out(res, img, xf) == [res |-> res, image |-> img, xfers |-> xf]

(* ---------------- raw::* : the ioctls and what the driver answers ------- *)

\* KB_GET_VALUE: errno ("" = success) and the SPIValue.i8uValue written back
raw_get_value(img, br, address, bit) ==
    IF ~br \/ address >= KB_PI_LEN
    THEN [errno |-> "EFAULT", i8uValue |-> 0]
    ELSE [errno |-> "",
          i8uValue |-> IF bit >= 8 THEN ImgAt(img, address)
                       ELSE BitOf(ImgAt(img, address), bit)]

\* KB_SET_VALUE: errno and the image afterwards
raw_set_value(img, br, address, bit, value) ==
    IF ~br \/ address >= KB_PI_LEN
    THEN [errno |-> "EFAULT", image |-> img]
    ELSE LET old == ImgAt(img, address)
             new == IF bit >= 8 THEN value
                    ELSE IF value # 0
                         THEN old + (1 - BitOf(old, bit)) * Pow2(bit)
                         ELSE old - BitOf(old, bit) * Pow2(bit)
         IN [errno |-> "", image |-> ImgPut(img, address, new)]

\* KB_FIND_VARIABLE: errno and the SPIVariable written back
raw_find_variable(cfg, br, name) ==
    LET hits == {e \in VarTable(cfg) : e.name = name} IN
    IF ~br THEN [errno |-> "EFAULT", var |-> SPIVariable_default]
    ELSE IF VarTable(cfg) = {}
    THEN [errno |-> "ENOENT", var |-> SPIVariable_default]
    ELSE IF hits = {}
    THEN [errno |-> "EFAULT", var |-> SPIVariable(U16_MAX, U8_MAX, U16_MAX)]
    ELSE [errno |-> "", var |-> (CHOOSE e \in hits : TRUE).var]

\* KB_GET_DEVICE_INFO
raw_get_device_info(cnt, address) ==
    IF \E i \in 1..cnt : SDeviceInfo(i).i8uAddress = address
    THEN [errno |-> "",
          dev |-> SDeviceInfo(CHOOSE i \in 1..cnt :
                                 SDeviceInfo(i).i8uAddress = address)]
    ELSE [errno |-> "ENXIO",
          dev |-> [SDeviceInfo_default EXCEPT !.i8uAddress = address]]

\* KB_DIO_RESET_COUNTER
raw_dio_reset_counter(br, core, cnt, address, bitfield) ==
    IF ~core THEN "EPERM"
    ELSE IF ~br THEN "EFAULT"
    ELSE IF bitfield = 0 \/ ~(\E i \in 1..cnt : SDeviceInfo(i).i8uAddress = address)
    THEN "EINVAL"
    ELSE ""

\* pread on the image: the bytes one read(2) at offset returns
pread(img, offset, count) ==
    IF offset >= KB_PI_LEN THEN <<>>
    ELSE LET n == IF offset + count > KB_PI_LEN THEN KB_PI_LEN - offset
                  ELSE count
         IN [i \in 1..n |-> ImgAt(img, offset + i - 1)]

\* File::read_exact_at: error kind ("" = success) and the buffer
read_exact_at(img, br, count, offset) ==
    IF ~br THEN [err |-> "EAGAIN", bytes |-> <<>>]
    ELSE IF Len(pread(img, offset, count)) < count
    THEN [err |-> "UnexpectedEof", bytes |-> pread(img, offset, count)]
    ELSE [err |-> "", bytes |-> pread(img, offset, count)]

\* File::open opens the device read-only
OpenedForWriting == FALSE

\* File::write_all_at: error kind ("" = success) and the image afterwards
RECURSIVE WriteBytes(_, _, _)
WriteBytes(img, offset, bytes) ==
    IF bytes = <<>> THEN img
    ELSE WriteBytes(ImgPut(img, offset, Head(bytes)), offset + 1, Tail(bytes))

write_all_at(img, br, bytes, offset) ==
    IF ~OpenedForWriting THEN [err |-> "EBADF", image |-> img]
    ELSE IF ~br THEN [err |-> "EAGAIN", image |-> img]
    ELSE IF offset + Len(bytes) > KB_PI_LEN
    THEN [err |-> "WriteZero", image |-> img]
    ELSE [err |-> "", image |-> WriteBytes(img, offset, bytes)]


\* KB_STOP_IO: errno and whether I/O is stopped afterwards
\* (stop = 0 starts, 1 stops, 2 toggles)
raw_stop_io(br, st, stop) ==
    IF ~br THEN [errno |-> "EFAULT", stopped |-> st]
    ELSE [errno |-> "",
          stopped |-> CASE stop = 0 -> FALSE
                        [] stop = 1 -> TRUE
                        [] OTHER -> ~st]

\* KB_GET_LAST_MESSAGE: the buffer the driver fills, the message and its NUL
raw_get_last_message(msg) == msg \o <<0>>

\* libc::strlen: the number of bytes before the first NUL
strlen(buf) == (CHOOSE i \in 1..Len(buf) :
                   buf[i] = 0 /\ \A j \in 1..(i - 1) : buf[j] # 0) - 1

\* CString::new: fails when the bytes handed over contain a NUL
CString_new(bytes) ==
    IF \E i \in 1..Len(bytes) : bytes[i] = 0
    THEN [err |-> "NulError", bytes |-> <<>>]
    ELSE [err |-> "", bytes |-> bytes]

(* ---------------- PiControlRaw (src/src/picontrol/raw.rs) --------------- *)

\* enum Bit
BitNames == <<"Zero", "One", "Two", "Three", "Four", "Five", "Six", "Seven">>

\* (variant: the discriminants start at 1)
Bit_as_u8_one_based(bit) == CHOOSE i \in 1..Len(BitNames) : BitNames[i] = bit

\* `bit as u8`: the discriminant of the variant
Bit_as_u8(bit) == (CHOOSE i \in 1..Len(BitNames) : BitNames[i] = bit) - 1

\* impl From<u8> for Bit; "panic" stands for the panic of the last arm
Bit_from_u8(v) == IF v <= 7 THEN BitNames[v + 1] ELSE "panic"

Bits == {"Zero", "Seven"}

\* (variant: address <= KB_PI_LEN)
PiControlRaw_get_value_le(img, br, address, bit) ==
    IF ~(address <= KB_PI_LEN)
    THEN Out(Err("InvalidArgument", "address", 0), img, <<>>)
    ELSE LET r == raw_get_value(img, br, address, bit)
             xf == <<Xfer("GetValue", address, bit, 0, <<>>, <<>>)>>
         IN IF r.errno = "EFAULT"
            THEN Out(Panic("bridge wasn't running"), img, xf)
            ELSE Out(Ok(r.i8uValue, FALSE), img, xf)

PiControlRaw_get_value(img, br, address, bit) ==
    IF ~(address < KB_PI_LEN)
    THEN Out(Err("InvalidArgument", "address", 0), img, <<>>)
    ELSE LET r == raw_get_value(img, br, address, bit)
             xf == <<Xfer("GetValue", address, bit, 0, <<>>, <<>>)>>
         IN IF r.errno = "EFAULT"
            THEN Out(Panic("bridge wasn't running"), img, xf)
            ELSE Out(Ok(r.i8uValue, FALSE), img, xf)

get_bit(img, br, address, bit) ==
    LET o == PiControlRaw_get_value(img, br, address, Bit_as_u8(bit))
    IN IF o.res.kind = "Ok"
       THEN Out(Ok(0, u8_ge_1(o.res.val)), o.image, o.xfers)
       ELSE o

\* (variant: the byte read selects bit 0)
get_byte_bit0(img, br, address) ==
    LET o == PiControlRaw_get_value(img, br, address, 0)
    IN Out(o.res, o.image, o.xfers)

get_byte(img, br, address) == PiControlRaw_get_value(img, br, address, SEL_BYTE)

get_word(img, br, address) ==
    LET r == read_exact_at(img, br, 2, address)
        xf == <<Xfer("pread", address, 0, 2, <<>>, <<>>)>>
    IN IF r.err # "" THEN Out(Err("IoError", r.err, 0), img, xf)
       ELSE Out(Ok(u16_from_le_bytes(r.bytes), FALSE), img, xf)

\* a dword read done as four single-byte reads
get_dword_bytewise(img, br, address) ==
    LET r == read_exact_at(img, br, 4, address)
        xf == [i \in 1..4 |-> Xfer("pread", address + i - 1, 0, 1, <<>>, <<>>)]
    IN IF r.err # "" THEN Out(Err("IoError", r.err, 0), img, xf)
       ELSE Out(OkDWord(u32_from_le_bytes(r.bytes)[1],
                        u32_from_le_bytes(r.bytes)[2]), img, xf)

get_dword(img, br, address) ==
    LET r == read_exact_at(img, br, 4, address)
        xf == <<Xfer("pread", address, 0, 4, <<>>, <<>>)>>
    IN IF r.err # "" THEN Out(Err("IoError", r.err, 0), img, xf)
       ELSE Out(OkDWord(u32_from_le_bytes(r.bytes)[1],
                        u32_from_le_bytes(r.bytes)[2]), img, xf)

PiControlRaw_set_value(img, br, address, bit, value) ==
    IF ~(address < KB_PI_LEN)
    THEN Out(Err("InvalidArgument", "address", 0), img, <<>>)
    ELSE LET r == raw_set_value(img, br, address, bit, value)
             xf == <<Xfer("SetValue", address, bit, value, <<>>, <<>>)>>
         IN IF r.errno = "EFAULT"
            THEN Out(Panic("bridge wasn't running"), r.image, xf)
            ELSE Out(OkUnit, r.image, xf)

\* a bit write that hands the byte selector to the driver
set_bit_whole_byte(img, br, address, bit, value) ==
    PiControlRaw_set_value(img, br, address, SEL_BYTE, bool_as_u8(value))

set_bit(img, br, address, bit, value) ==
    PiControlRaw_set_value(img, br, address, Bit_as_u8(bit), bool_as_u8(value))

set_byte(img, br, address, value) ==
    PiControlRaw_set_value(img, br, address, SEL_BYTE, value)

set_word(img, br, address, value) ==
    LET w == write_all_at(img, br, u16_to_le_bytes(value), address)
        xf == <<Xfer("pwrite", address, 0, 0, <<>>, u16_to_le_bytes(value))>>
    IN IF w.err # "" THEN Out(Err("IoError", w.err, 0), w.image, xf)
       ELSE Out(OkUnit, w.image, xf)

set_dword(img, br, address, hi, lo) ==
    LET w == write_all_at(img, br, u32_to_le_bytes(hi, lo), address)
        xf == <<Xfer("pwrite", address, 0, 0, <<>>, u32_to_le_bytes(hi, lo))>>
    IN IF w.err # "" THEN Out(Err("IoError", w.err, 0), w.image, xf)
       ELSE Out(OkUnit, w.image, xf)

\* (variant: len <= 33)
find_variable_len33(img, cfg, br, name) ==
    LET len == Len(name) + 1 IN
    IF ~(len <= NAME_BUF_LEN + 1)
    THEN Out(Err("InvalidArgument", "length of name", 0), img, <<>>)
    ELSE LET r == raw_find_variable(cfg, br, name)
             xf == <<Xfer("FindVariable", 0, 0, 0, name, <<>>)>>
         IN CASE r.errno = "EFAULT" ->
                   IF /\ r.var.i16uAddress = U16_MAX
                      /\ r.var.i8uBit = U8_MAX
                      /\ r.var.i16uLength = U16_MAX
                   THEN Out(Err("InvalidArgument", "name", 0), img, xf)
                   ELSE Out(Panic("bridge wasn't running"), img, xf)
              [] r.errno = "ENOENT" -> Out(Err("NoVarEntries", "", 0), img, xf)
              [] OTHER -> Out(OkVar(r.var), img, xf)

\* (variant: ENOENT reported as an unknown name)
find_variable_enoent(img, cfg, br, name) ==
    LET len == Len(name) + 1 IN
    IF ~(len <= NAME_BUF_LEN)
    THEN Out(Err("InvalidArgument", "length of name", 0), img, <<>>)
    ELSE LET r == raw_find_variable(cfg, br, name)
             xf == <<Xfer("FindVariable", 0, 0, 0, name, <<>>)>>
         IN CASE r.errno = "EFAULT" ->
                   IF /\ r.var.i16uAddress = U16_MAX
                      /\ r.var.i8uBit = U8_MAX
                      /\ r.var.i16uLength = U16_MAX
                   THEN Out(Err("InvalidArgument", "name", 0), img, xf)
                   ELSE Out(Panic("bridge wasn't running"), img, xf)
              [] r.errno = "ENOENT" -> Out(Err("InvalidArgument", "name", 0), img, xf)
              [] OTHER -> Out(OkVar(r.var), img, xf)

\* name: the bytes of the &CStr without its terminator
find_variable(img, cfg, br, name) ==
    LET len == Len(name) + 1 IN
    IF ~(len <= NAME_BUF_LEN)
    THEN Out(Err("InvalidArgument", "length of name", 0), img, <<>>)
    ELSE LET r == raw_find_variable(cfg, br, name)
             xf == <<Xfer("FindVariable", 0, 0, 0, name, <<>>)>>
         IN CASE r.errno = "EFAULT" ->
                   IF /\ r.var.i16uAddress = U16_MAX
                      /\ r.var.i8uBit = U8_MAX
                      /\ r.var.i16uLength = U16_MAX
                   THEN Out(Err("InvalidArgument", "name", 0), img, xf)
                   ELSE Out(Panic("bridge wasn't running"), img, xf)
              [] r.errno = "ENOENT" -> Out(Err("NoVarEntries", "", 0), img, xf)
              [] OTHER -> Out(OkVar(r.var), img, xf)

\* (variant: no check of the bitfield)
dio_reset_counter_unchecked(img, br, core, cnt, dio_address, bitfield) ==
    LET e == raw_dio_reset_counter(br, core, cnt, dio_address, bitfield)
        xf == <<Xfer("DIOResetCounter", dio_address, 0, bitfield, <<>>, <<>>)>>
    IN CASE e = "EFAULT" -> Out(Panic("bridge wasn't running"), img, xf)
         [] e = "EPERM" ->
              Out(Panic("this isn't a revpi core or connect"), img, xf)
         [] e = "EINVAL" ->
              Out(Err("InvalidArgument", "dio_address", 0), img, xf)
         [] OTHER -> Out(OkUnit, img, xf)

dio_reset_counter(img, br, core, cnt, dio_address, bitfield) ==
    IF ~(bitfield # 0)
    THEN Out(Err("InvalidArgument", "bitfield", 0), img, <<>>)
    ELSE LET e == raw_dio_reset_counter(br, core, cnt, dio_address, bitfield)
             xf == <<Xfer("DIOResetCounter", dio_address, 0, bitfield, <<>>, <<>>)>>
         IN CASE e = "EFAULT" -> Out(Panic("bridge wasn't running"), img, xf)
              [] e = "EPERM" ->
                   Out(Panic("this isn't a revpi core or connect"), img, xf)
              [] e = "EINVAL" ->
                   Out(Err("InvalidArgument", "dio_address", 0), img, xf)
              [] OTHER -> Out(OkUnit, img, xf)

\* (variant: DeviceNotFound carries the address of the default record)
get_device_info_default(img, cnt, address) ==
    LET r == raw_get_device_info(cnt, address)
        xf == <<Xfer("GetDeviceInfo", address, 0, 0, <<>>, <<>>)>>
    IN IF r.errno = "ENXIO"
       THEN Out(Err("DeviceNotFound", "", SDeviceInfo_default.i8uAddress), img, xf)
       ELSE Out(OkDWord(r.dev.i32uSerialNumber, r.dev.i8uAddress), img, xf)

\* the SDeviceInfo returned is given by its address (val) and serial (hi)
get_device_info(img, cnt, address) ==
    LET r == raw_get_device_info(cnt, address)
        xf == <<Xfer("GetDeviceInfo", address, 0, 0, <<>>, <<>>)>>
    IN IF r.errno = "ENXIO"
       THEN Out(Err("DeviceNotFound", "", address), img, xf)
       ELSE Out(OkDWord(r.dev.i32uSerialNumber, r.dev.i8uAddress), img, xf)

\* cnt: the count the ioctl returns; oom: the driver ran out of memory;
\* ub: what the build does once set_len exceeds the capacity of the Vec
\* ("returned": the over-long Vec comes back, "crashed": the process dies).
\* The Vec returned is given by its length (val).
get_device_info_list(img, cnt, oom, ub) ==
    LET xf == <<Xfer("GetDeviceInfoList", 0, 0, 0, <<>>, <<>>)>> IN
    IF oom THEN Out(Panic("out of memory"), img, xf)
    ELSE IF ~(cnt > REV_PI_DEV_CNT_MAX)
    THEN Out(Panic("cnt was larger than REV_PI_DEV_CNT_MAX"), img, xf)
    ELSE IF cnt > REV_PI_DEV_CNT_MAX /\ ub = "crashed"
    THEN Out(Res("UB", "", "set_len beyond capacity", 0, 0, FALSE,
                 SPIVariable_default, NoValue), img, xf)
    ELSE Out(Ok(cnt, FALSE), img, xf)

\* (variant: the error of the ioctl is dropped)
reset_ignore(img, timedout) ==
    Out(OkUnit, img, <<Xfer("Reset", 0, 0, 0, <<>>, <<>>)>>)

\* timedout: the bridge did not come up in time (ETIMEDOUT)
reset(img, timedout) ==
    LET xf == <<Xfer("Reset", 0, 0, 0, <<>>, <<>>)>> IN
    IF timedout
    THEN Out(Panic("couldn't restart because bridge didn't come up; timedout"),
             img, xf)
    ELSE Out(OkUnit, img, xf)


\* msg: the message the resource holds
get_last_message(img, msg) ==
    LET buf == raw_get_last_message(msg)
        len == strlen(buf)
        c == CString_new(SubSeq(buf, 1, len + 1))
        xf == <<Xfer("GetLastMessage", 0, 0, 0, <<>>, <<>>)>>
    IN IF c.err # ""
       THEN Out(Panic("called Result::unwrap() on an Err value: NulError"),
                img, xf)
       ELSE Out(OkText(c.bytes), img, xf)

\* (variant: a bridge that is down is reported as an error value)
inner_stop_io_err(img, br, st, stop) ==
    LET r == raw_stop_io(br, st, stop)
        xf == <<Xfer("StopIO", 0, 0, stop, <<>>, <<>>)>>
    IN IF r.errno = "EFAULT"
       THEN Out(Err("IoError", "EFAULT", 0), img, xf)
       ELSE Out(Ok(0, r.stopped), img, xf)

\* st: I/O is stopped; the outcome carries the new state in res.flag
inner_stop_io(img, br, st, stop) ==
    LET r == raw_stop_io(br, st, stop)
        xf == <<Xfer("StopIO", 0, 0, stop, <<>>, <<>>)>>
    IN IF r.errno = "EFAULT"
       THEN Out(Panic("bridge wasn't running"), img, xf)
       ELSE Out(Ok(0, r.stopped), img, xf)

stop_io(img, br, st) == inner_stop_io(img, br, st, 1)

start_io(img, br, st) == inner_stop_io(img, br, st, 0)

\* (variant: toggle_io requests mode 0)
toggle_io_start(img, br, st) == inner_stop_io(img, br, st, 0)

toggle_io(img, br, st) == inner_stop_io(img, br, st, 2)

set_output_watchdog(img, millis) ==
    Out(OkUnit, img, <<Xfer("SetOutputWatchdog", 0, 0, millis, <<>>, <<>>)>>)

\* KB_SET_EXPORTED_OUTPUTS: the whole image is replaced; the only documented
\* errors need an inaccessible buffer or a bad descriptor
raw_set_exported_outputs(img, new) == [errno |-> "", image |-> new]

set_exported_outputs(img, new) ==
    LET r == raw_set_exported_outputs(img, new)
        xf == <<Xfer("SetExportedOutputs", 0, 0, 0, <<>>, <<>>)>>
    IN IF r.errno # "" THEN Out(Panic("called Result::unwrap() on an Err value"), img, xf)
       ELSE Out(OkUnit, r.image, xf)

\* KB_UPDATE_DEVICE_FIRMWARE: EPERM off a Core/Connect, EFAULT when the bridge
\* is down or the number of connected modules is not one
raw_update_device_firmware(br, core, cnt, module) ==
    IF ~core THEN "EPERM"
    ELSE IF ~br \/ cnt # 1 THEN "EFAULT"
    ELSE ""

update_device_firmware(img, br, core, cnt, module) ==
    LET e == raw_update_device_firmware(br, core, cnt, module)
        xf == <<Xfer("UpdateDeviceFirmware", module, 0, 0, <<>>, <<>>)>>
    IN CASE e = "EFAULT" ->
              Out(Panic("bridge wasn't running or too little or too many modules were connected"),
                  img, xf)
         [] e = "EPERM" -> Out(Panic("this isn't a revpi core or connect"), img, xf)
         [] OTHER -> Out(OkUnit, img, xf)

\* errno, event: what the ioctl answers once it returns
\* (Event::Reset is returned as its discriminant 1)
wait_for_event(img, errno, event) ==
    LET xf == <<Xfer("WaitForEvent", 0, 0, event, <<>>, <<>>)>> IN
    IF errno # ""
    THEN Out(Panic("called Result::unwrap() on an Err value"), img, xf)
    ELSE IF event = 1 THEN Out(Ok(1, FALSE), img, xf)
    ELSE Out(Panic("an unspecified event occured"), img, xf)

(* ---------------- PiControl (src/src/picontrol.rs) ---------------------- *)

\* (variant: a Word counts 8 bits)
bitcnt_word8(value) ==
    CASE value.tag = "Bit" -> 1
      [] value.tag = "Byte" -> U8_BITS
      [] value.tag = "Word" -> U8_BITS
      [] OTHER -> U32_BITS

\* Value::bitcnt
bitcnt(value) ==
    CASE value.tag = "Bit" -> 1
      [] value.tag = "Byte" -> U8_BITS
      [] value.tag = "Word" -> U16_BITS
      [] OTHER -> U32_BITS

\* (variant: the name is resolved in the table that was loaded first)
PiControl_find_variable_stale(img, cfg, br, name) ==
    IF \E i \in 1..Len(name) : name[i] = 0
    THEN Out(Err("NulError", "", 0), img, <<>>)
    ELSE find_variable(img, IF cfg = "B" THEN "A" ELSE cfg, br, name)

\* CString::new(name) fails on an interior NUL byte
PiControl_find_variable(img, cfg, br, name) ==
    IF \E i \in 1..Len(name) : name[i] = 0
    THEN Out(Err("NulError", "", 0), img, <<>>)
    ELSE find_variable(img, cfg, br, name)

\* The bit position found by the lookup is a u8 and set_bit/get_bit take a
\* Bit: the u8 goes through From<u8> for Bit, the one conversion the crate
\* has, which panics above 7.
\* the same without the comparison of the lengths
PiControl_set_value_unchecked(img, cfg, br, name, value) ==
    LET fv == PiControl_find_variable(img, cfg, br, name)
        var == fv.res.var
    IN IF fv.res.kind # "Ok" THEN fv
       ELSE IF FALSE
       THEN Out(Err("InvalidArgument", "value or str", 0), img, fv.xfers)
       ELSE LET o == CASE value.tag = "Bit" ->
                            IF Bit_from_u8(var.i8uBit) = "panic"
                            THEN Out(Panic("integer out of range of enum"),
                                     img, <<>>)
                            ELSE set_bit(img, br, var.i16uAddress,
                                         Bit_from_u8(var.i8uBit), value.b)
                       [] value.tag = "Byte" ->
                            set_byte(img, br, var.i16uAddress, value.n)
                       [] value.tag = "Word" ->
                            set_word(img, br, var.i16uAddress, value.n)
                       [] OTHER ->
                            set_dword(img, br, var.i16uAddress, value.hi, value.n)
            IN Out(o.res, o.image, fv.xfers \o o.xfers)

PiControl_set_value(img, cfg, br, name, value) ==
    LET fv == PiControl_find_variable(img, cfg, br, name)
        var == fv.res.var
    IN IF fv.res.kind # "Ok" THEN fv
       ELSE IF ~(var.i16uLength = bitcnt(value))
       THEN Out(Err("InvalidArgument", "value or str", 0), img, fv.xfers)
       ELSE LET o == CASE value.tag = "Bit" ->
                            IF Bit_from_u8(var.i8uBit) = "panic"
                            THEN Out(Panic("integer out of range of enum"),
                                     img, <<>>)
                            ELSE set_bit(img, br, var.i16uAddress,
                                         Bit_from_u8(var.i8uBit), value.b)
                       [] value.tag = "Byte" ->
                            set_byte(img, br, var.i16uAddress, value.n)
                       [] value.tag = "Word" ->
                            set_word(img, br, var.i16uAddress, value.n)
                       [] OTHER ->
                            set_dword(img, br, var.i16uAddress, value.hi, value.n)
            IN Out(o.res, o.image, fv.xfers \o o.xfers)

\* (variant: a length that is no width is read as a byte)
PiControl_get_value_coerce(img, cfg, br, name) ==
    LET fv == PiControl_find_variable(img, cfg, br, name)
        var == fv.res.var
    IN IF fv.res.kind # "Ok" THEN fv
       ELSE LET o ==
                CASE var.i16uLength = 1 ->
                       IF Bit_from_u8(var.i8uBit) = "panic"
                       THEN Out(Panic("integer out of range of enum"), img, <<>>)
                       ELSE get_bit(img, br, var.i16uAddress,
                                    Bit_from_u8(var.i8uBit))
                  [] var.i16uLength = 16 -> get_word(img, br, var.i16uAddress)
                  [] var.i16uLength = 32 -> get_dword(img, br, var.i16uAddress)
                  [] OTHER -> get_byte(img, br, var.i16uAddress)
                wrapped ==
                    IF o.res.kind # "Ok" THEN o.res
                    ELSE CASE var.i16uLength = 1 -> OkValue(ValueBit(o.res.flag))
                           [] var.i16uLength = 16 -> OkValue(ValueWord(o.res.val))
                           [] var.i16uLength = 32 ->
                                OkValue(ValueDWord(o.res.hi, o.res.val))
                           [] OTHER -> OkValue(ValueByte(o.res.val))
            IN Out(wrapped, o.image, fv.xfers \o o.xfers)

PiControl_get_value(img, cfg, br, name) ==
    LET fv == PiControl_find_variable(img, cfg, br, name)
        var == fv.res.var
    IN IF fv.res.kind # "Ok" THEN fv
       ELSE LET o ==
                CASE var.i16uLength = 1 ->
                       IF Bit_from_u8(var.i8uBit) = "panic"
                       THEN Out(Panic("integer out of range of enum"), img, <<>>)
                       ELSE get_bit(img, br, var.i16uAddress,
                                    Bit_from_u8(var.i8uBit))
                  [] var.i16uLength = 8 -> get_byte(img, br, var.i16uAddress)
                  [] var.i16uLength = 16 -> get_word(img, br, var.i16uAddress)
                  [] var.i16uLength = 32 -> get_dword(img, br, var.i16uAddress)
                  [] OTHER ->
                       Out(Panic("invalid bitlength from piControl"), img, <<>>)
                \* .map(Value::from): bool, u8, u16, u32 into Value
                wrapped ==
                    IF o.res.kind # "Ok" THEN o.res
                    ELSE CASE var.i16uLength = 1 -> OkValue(ValueBit(o.res.flag))
                           [] var.i16uLength = 8 -> OkValue(ValueByte(o.res.val))
                           [] var.i16uLength = 16 -> OkValue(ValueWord(o.res.val))
                           [] OTHER -> OkValue(ValueDWord(o.res.hi, o.res.val))
            IN Out(wrapped, o.image, fv.xfers \o o.xfers)

(* ---------------- revpi_rsc (src/revpi_rsc/src/lib.rs) ------------------ *)

\* Option<T>: None is <<>>, Some(x) is <<x>>
None == <<>>

Some(x) == <<x>>

\* a field of a device of the configuration
InOutMem(name, default, bit_length, offset, exported, sort_pos, comment, bit_position) ==
    [name |-> name, default |-> default, bit_length |-> bit_length,
     offset |-> offset, exported |-> exported, sort_pos |-> sort_pos,
     comment |-> comment, bit_position |-> bit_position]

\* a device: its base offset and its fields, each collection a map from
\* key to field
Device(offset, inp, out, mem) ==
    [offset |-> offset, inp |-> inp, out |-> out, mem |-> mem]

RSC(devices) == [devices |-> devices]

\* format!("{}", n) of an unsigned integer: its decimal digits as characters
RECURSIVE fmt_int(_)
fmt_int(n) ==
    IF n < 10 THEN <<48 + n>>
    ELSE fmt_int(n \div 10) \o <<48 + (n % 10)>>

\* format!("{:0>4}", n): the digits, filled with '0' on the left to 4
fmt_int_0_4(n) ==
    IF Len(fmt_int(n)) >= 4 THEN fmt_int(n)
    ELSE [i \in 1..(4 - Len(fmt_int(n))) |-> 48] \o fmt_int(n)

\* the digits of str::parse for an unsigned integer of maximum max: a
\* character that is no digit is refused, a value above max overflows
RECURSIVE parse_digits(_, _, _)
parse_digits(s, acc, max) ==
    IF s = <<>> THEN [err |-> "", val |-> acc]
    ELSE IF Head(s) \notin 48..57
    THEN [err |-> "invalid digit found in string", val |-> 0]
    ELSE IF acc > (max - (Head(s) - 48)) \div 10
    THEN [err |-> "number too large to fit in target type", val |-> 0]
    ELSE parse_digits(Tail(s), acc * 10 + (Head(s) - 48), max)

\* str::parse::<uN>(): an empty string and a lone sign are refused, one
\* leading '+' is accepted
parse(s, max) ==
    IF s = <<>>
    THEN [err |-> "cannot parse integer from empty string", val |-> 0]
    ELSE IF Len(s) = 1 /\ s[1] \in {43, 45}
    THEN [err |-> "invalid digit found in string", val |-> 0]
    ELSE IF s[1] = 43 THEN parse_digits(Tail(s), 0, max)
    ELSE parse_digits(s, 0, max)

\* IVisitor::visit_str
de_str_i(v, max) == parse(v, max)

\* (variant: the empty string is parsed like any other)
de_str_opt_i_parse(v, max) ==
    IF parse(v, max).err # "" THEN [err |-> parse(v, max).err, val |-> None]
    ELSE [err |-> "", val |-> Some(parse(v, max).val)]

\* OptIVisitor::visit_str
de_str_opt_i(v, max) ==
    IF v = <<>> THEN [err |-> "", val |-> None]
    ELSE IF parse(v, max).err # "" THEN [err |-> parse(v, max).err, val |-> None]
    ELSE [err |-> "", val |-> Some(parse(v, max).val)]

\* impl Serialize for InOutMem: the tuple of 8 elements, or the error
InOutMem_serialize(item) ==
    IF ~(item.sort_pos <= 9999)
    THEN [err |-> "i must not be bigger than 9999", tup |-> <<>>]
    ELSE [err |-> "",
          tup |-> <<item.name,
                    fmt_int(item.default),
                    fmt_int(item.bit_length),
                    fmt_int(item.offset),
                    item.exported,
                    fmt_int_0_4(item.sort_pos),
                    item.comment,
                    IF item.bit_position # None
                    THEN fmt_int(item.bit_position[1]) ELSE <<>> >>]

\* #[derive(Deserialize)] for InOutMem, from a sequence of 8 elements; the
\* u64 fields are parsed up to 2147483647, the largest integer of the model
InOutMem_deserialize(tup) ==
    LET default == de_str_i(tup[2], 2147483647)
        bit_length == de_str_i(tup[3], U8_MAX)
        offset == de_str_i(tup[4], 2147483647)
        sort_pos == de_str_i(tup[6], U16_MAX)
        bit_position == de_str_opt_i(tup[8], U8_MAX)
        errs == <<default.err, bit_length.err, offset.err, sort_pos.err,
                  bit_position.err>>
    IN IF \E i \in 1..Len(errs) : errs[i] # ""
       THEN [err |-> errs[CHOOSE i \in 1..Len(errs) :
                              errs[i] # "" /\ \A j \in 1..(i - 1) : errs[j] = ""],
             item |-> InOutMem(<<>>, 0, 0, 0, FALSE, 0, <<>>, None)]
       ELSE [err |-> "",
             item |-> InOutMem(tup[1], default.val, bit_length.val, offset.val,
                               tup[5], sort_pos.val, tup[7], bit_position.val)]

\* (variant: the values in descending order of their keys)
values_desc(map) ==
    [i \in 1..Cardinality(DOMAIN map) |->
        map[CHOOSE k \in DOMAIN map :
                Cardinality({j \in DOMAIN map : j > k}) = i - 1]]

\* BTreeMap::values: the values in ascending order of their keys
RECURSIVE values(_)
values(map) ==
    IF DOMAIN map = {} THEN <<>>
    ELSE LET k == CHOOSE x \in DOMAIN map : \A y \in DOMAIN map : x <= y
         IN <<map[k]>> \o values([j \in DOMAIN map \ {k} |-> map[j]])

(* ---------------- revpi_macro (src/revpi_macro/src/lib.rs) -------------- *)

\* a generated function: pub fn <kind>_<name> whose body calls
\* self.inner.<function>(<address>[, <bit>][, <argument>])
GenFn(kind, name, function, address, bit) ==
    [kind |-> kind, name |-> name, function |-> function,
     address |-> address, bit |-> bit]

\* what the generator produced: the functions, or the panic that ended it
Gen(panic, functions) == [panic |-> panic, functions |-> functions]

\* TokenStream::extend, a panic along the way ending the expansion
Extend(a, b) ==
    IF a.panic # "" THEN a
    ELSE IF b.panic # "" THEN b
    ELSE Gen("", a.functions \o b.functions)

\* `as u16`
as_u16(n) == n % (U16_MAX + 1)

\* (variant: a length that is no width is bound to the byte accessor)
get_fn_coerce(mod_offset, item) ==
    LET address == as_u16(mod_offset + item.offset) IN
    CASE item.bit_length = 1 ->
           IF item.bit_position = None
           THEN Gen("called Option::unwrap() on a None value", <<>>)
           ELSE Gen("", <<GenFn("get", item.name, "get_bit", address,
                                item.bit_position)>>)
      [] item.bit_length = 16 ->
           Gen("", <<GenFn("get", item.name, "get_word", address, None)>>)
      [] item.bit_length = 32 ->
           Gen("", <<GenFn("get", item.name, "get_dword", address, None)>>)
      [] OTHER ->
           Gen("", <<GenFn("get", item.name, "get_byte", address, None)>>)

get_fn(mod_offset, item) ==
    LET address == as_u16(mod_offset + item.offset) IN
    CASE item.bit_length = 1 ->
           IF item.bit_position = None
           THEN Gen("called Option::unwrap() on a None value", <<>>)
           ELSE Gen("", <<GenFn("get", item.name, "get_bit", address,
                                item.bit_position)>>)
      [] item.bit_length = 8 ->
           Gen("", <<GenFn("get", item.name, "get_byte", address, None)>>)
      [] item.bit_length = 16 ->
           Gen("", <<GenFn("get", item.name, "get_word", address, None)>>)
      [] item.bit_length = 32 ->
           Gen("", <<GenFn("get", item.name, "get_dword", address, None)>>)
      [] OTHER -> Gen("invalid bitlength", <<>>)

\* (variant: no setter is emitted)
set_fn_none(mod_offset, item) ==
    IF item.bit_length \in {1, 8, 16, 32} THEN Gen("", <<>>)
    ELSE Gen("invalid bitlength", <<>>)

\* (variant: the offset of the device is left out of the address)
set_fn_no_base(mod_offset, item) ==
    LET address == as_u16(item.offset) IN
    CASE item.bit_length = 1 ->
           IF item.bit_position = None
           THEN Gen("called Option::unwrap() on a None value", <<>>)
           ELSE Gen("", <<GenFn("set", item.name, "set_bit", address,
                                item.bit_position)>>)
      [] item.bit_length = 8 ->
           Gen("", <<GenFn("set", item.name, "set_byte", address, None)>>)
      [] item.bit_length = 16 ->
           Gen("", <<GenFn("set", item.name, "set_word", address, None)>>)
      [] item.bit_length = 32 ->
           Gen("", <<GenFn("set", item.name, "set_dword", address, None)>>)
      [] OTHER -> Gen("invalid bitlength", <<>>)

set_fn(mod_offset, item) ==
    LET address == as_u16(mod_offset + item.offset) IN
    CASE item.bit_length = 1 ->
           IF item.bit_position = None
           THEN Gen("called Option::unwrap() on a None value", <<>>)
           ELSE Gen("", <<GenFn("set", item.name, "set_bit", address,
                                item.bit_position)>>)
      [] item.bit_length = 8 ->
           Gen("", <<GenFn("set", item.name, "set_byte", address, None)>>)
      [] item.bit_length = 16 ->
           Gen("", <<GenFn("set", item.name, "set_word", address, None)>>)
      [] item.bit_length = 32 ->
           Gen("", <<GenFn("set", item.name, "set_dword", address, None)>>)
      [] OTHER -> Gen("invalid bitlength", <<>>)

\* for i in d.inp.values()
RECURSIVE from_json_inp(_, _)
from_json_inp(mod_offset, items) ==
    IF items = <<>> THEN Gen("", <<>>)
    ELSE Extend(get_fn(mod_offset, Head(items)),
                from_json_inp(mod_offset, Tail(items)))

\* for o in d.out.values(), for m in d.mem.values()
RECURSIVE from_json_outmem(_, _)
from_json_outmem(mod_offset, items) ==
    IF items = <<>> THEN Gen("", <<>>)
    ELSE Extend(Extend(get_fn(mod_offset, Head(items)),
                       set_fn(mod_offset, Head(items))),
                from_json_outmem(mod_offset, Tail(items)))

\* for d in rsc.devices.iter()
RECURSIVE from_json_devices(_)
from_json_devices(devices) ==
    IF devices = <<>> THEN Gen("", <<>>)
    ELSE LET d == Head(devices) IN
         Extend(Extend(Extend(from_json_inp(d.offset, values(d.inp)),
                              from_json_outmem(d.offset, values(d.out))),
                       from_json_outmem(d.offset, values(d.mem))),
                from_json_devices(Tail(devices)))

from_json(rsc_) == from_json_devices(rsc_.devices)

\* the body of a generated function: unsafe { self.inner.<function>(...) }.
\* The bit position is written as an integer literal where get_bit/set_bit
\* take a Bit; it goes through From<u8> for Bit, as in PiControl.
generated_fn(img, br, f, value) ==
    CASE f.function \in {"get_bit", "set_bit"} /\ Bit_from_u8(f.bit[1]) = "panic" ->
           Out(Panic("integer out of range of enum"), img, <<>>)
      [] f.function = "get_bit" ->
           get_bit(img, br, f.address, Bit_from_u8(f.bit[1]))
      [] f.function = "get_byte" -> get_byte(img, br, f.address)
      [] f.function = "get_word" -> get_word(img, br, f.address)
      [] f.function = "get_dword" -> get_dword(img, br, f.address)
      [] f.function = "set_bit" ->
           set_bit(img, br, f.address, Bit_from_u8(f.bit[1]), value.b)
      [] f.function = "set_byte" -> set_byte(img, br, f.address, value.n)
      [] f.function = "set_word" -> set_word(img, br, f.address, value.n)
      [] OTHER -> set_dword(img, br, f.address, value.hi, value.n)

\* the type of the argument of a generated setter
ArgTag(f) ==
    CASE f.function = "set_bit" -> "Bit"
      [] f.function = "set_byte" -> "Byte"
      [] f.function = "set_word" -> "Word"
      [] f.function = "set_dword" -> "DWord"
      [] OTHER -> "None"

(* ---------------- the state machine ---------------- *)

VARIABLES
    image,      \* the process image of the resource
    bridge,     \* TRUE iff the bridge is running
    config,     \* the configuration the resource has loaded
    devcnt,     \* the number of devices the resource reports
    core,       \* TRUE iff the machine is a RevPi Core or Connect
    call,       \* the last call
    result,     \* its result
    xfers,      \* the transfers it issued to the resource
    prev,       \* the call before it, when that was a set that returned Ok
    stopped,    \* TRUE iff the resource has stopped refreshing I/O
    lastmsg,    \* the last message the resource holds
    closed,     \* TRUE iff another thread has closed the descriptor
    rsc,        \* the configuration the macro reads
    gen,        \* what the macro has generated from it
    serde       \* a field record, its serialization and what that
                \* deserializes to

vars == <<image, bridge, config, devcnt, core, call, result, xfers, prev,
          stopped, lastmsg, closed, rsc, gen, serde>>

\* what the calls on the image, the names and the devices leave alone
rest == <<stopped, lastmsg, closed, rsc, gen, serde>>

\* a record that has not been serialized yet
Serde(item) ==
    [stage |-> "new", item |-> item,
     wire |-> [err |-> "", tup |-> <<>>],
     back |-> [err |-> "", item |-> item]]

\* the macro has not been expanded
NotGenerated == [panic |-> "", functions |-> <<>>, done |-> FALSE]

SetOps == {"set_bit", "set_byte", "set_word", "set_dword"}

\* the states a process can start in: nothing called yet, the resource in
\* any of the states the input sets describe
InitCommon ==
    /\ image \in InitImages
    /\ bridge \in BOOLEAN
    /\ call = NoCall
    /\ result = NoResult
    /\ xfers = <<>>
    /\ prev = NoCall
    /\ stopped = FALSE
    /\ lastmsg = <<>>
    /\ closed = FALSE
    /\ gen = NotGenerated
    /\ serde = Serde(InOutMem(<<>>, 0, 0, 0, FALSE, 0, <<>>, None))

\* the typed image accessors
Init ==
    /\ InitCommon
    /\ rsc = RSC(<<>>)
    /\ config = "A"
    /\ devcnt = 1
    /\ core = TRUE

\* name lookup and the facade PiControl
InitName ==
    /\ InitCommon
    /\ rsc = RSC(<<>>)
    /\ config \in Configs
    /\ devcnt = 1
    /\ core = TRUE

\* the device operations
InitDev ==
    /\ InitCommon
    /\ rsc = RSC(<<>>)
    /\ config = "A"
    /\ devcnt \in DevCounts
    /\ core \in BOOLEAN

\* a panic or undefined behaviour ends the process, and nothing is called
\* while a call blocks
Alive == result.kind \notin {"Panic", "UB", "Blocked"}

\* one call c with outcome o
Step(c, o) ==
    /\ Alive
    /\ call' = c
    /\ result' = o.res
    /\ xfers' = o.xfers
    /\ image' = o.image
    /\ prev' = IF call.op \in SetOps /\ result.kind = "Ok" THEN call ELSE NoCall
    /\ UNCHANGED <<bridge, config, devcnt, core>>
    /\ UNCHANGED rest

Call_get_bit ==
    \E a \in Addrs, b \in Bits :
        Step(Call("get_bit", a, Bit_as_u8(b), 0, 0, FALSE, <<>>, NoValue),
             get_bit(image, bridge, a, b))

Call_get_byte ==
    \E a \in Addrs :
        Step(Call("get_byte", a, 0, 0, 0, FALSE, <<>>, NoValue),
             get_byte(image, bridge, a))

Call_get_word ==
    \E a \in WordAddrs :
        Step(Call("get_word", a, 0, 0, 0, FALSE, <<>>, NoValue),
             get_word(image, bridge, a))

Call_get_dword ==
    \E a \in DWordAddrs :
        Step(Call("get_dword", a, 0, 0, 0, FALSE, <<>>, NoValue),
             get_dword(image, bridge, a))

Call_set_bit ==
    \E a \in Addrs, b \in Bits, v \in BOOLEAN :
        Step(Call("set_bit", a, Bit_as_u8(b), 0, 0, v, <<>>, NoValue),
             set_bit(image, bridge, a, b, v))

Call_set_byte ==
    \E a \in Addrs, v \in Bytes :
        Step(Call("set_byte", a, 0, v, 0, FALSE, <<>>, NoValue),
             set_byte(image, bridge, a, v))

Call_set_word ==
    \E a \in WordAddrs, v \in Words :
        Step(Call("set_word", a, 0, v, 0, FALSE, <<>>, NoValue),
             set_word(image, bridge, a, v))

Call_set_dword ==
    \E a \in DWordAddrs, d \in DWords :
        Step(Call("set_dword", a, 0, d[2], d[1], FALSE, <<>>, NoValue),
             set_dword(image, bridge, a, d[1], d[2]))

Call_find_variable ==
    \E n \in CNames :
        Step(Call("find_variable", 0, 0, 0, 0, FALSE, n, NoValue),
             find_variable(image, config, bridge, n))

Call_dio_reset_counter ==
    \E a \in DevAddrs, bf \in Bitfields :
        Step(Call("dio_reset_counter", a, 0, bf, 0, FALSE, <<>>, NoValue),
             dio_reset_counter(image, bridge, core, devcnt, a, bf))

Call_get_device_info ==
    \E a \in DevAddrs :
        Step(Call("get_device_info", a, 0, 0, 0, FALSE, <<>>, NoValue),
             get_device_info(image, devcnt, a))

Call_get_device_info_list ==
    \E oom \in BOOLEAN, ub \in {"returned", "crashed"} :
        Step(Call("get_device_info_list", 0, 0, 0, 0, FALSE, <<>>, NoValue),
             get_device_info_list(image, devcnt, oom, ub))

\* a reset that succeeds leaves the bridge running and may have loaded
\* another configuration; one that times out leaves the bridge down
Call_reset ==
    \E timedout \in BOOLEAN, cfg \in Configs :
        /\ Alive
        /\ call' = Call("reset", 0, 0, 0, 0, FALSE, <<>>, NoValue)
        /\ result' = reset(image, timedout).res
        /\ xfers' = reset(image, timedout).xfers
        /\ prev' = NoCall
        /\ bridge' = ~timedout
        /\ config' = IF timedout THEN config ELSE cfg
        /\ UNCHANGED <<image, devcnt, core>>
        /\ UNCHANGED rest

Call_PiControl_set_value ==
    \E n \in Names, v \in Values :
        Step(Call("PiControl::set_value", 0, 0, 0, 0, FALSE, n, v),
             PiControl_set_value(image, config, bridge, n, v))

Call_PiControl_get_value ==
    \E n \in Names :
        Step(Call("PiControl::get_value", 0, 0, 0, 0, FALSE, n, NoValue),
             PiControl_get_value(image, config, bridge, n))

\* the resource holds any message when it is asked
Call_get_last_message ==
    \E m \in Messages :
        /\ Alive
        /\ lastmsg' = m
        /\ call' = Call("get_last_message", 0, 0, 0, 0, FALSE, <<>>, NoValue)
        /\ result' = get_last_message(image, m).res
        /\ xfers' = get_last_message(image, m).xfers
        /\ prev' = NoCall
        /\ UNCHANGED <<image, bridge, config, devcnt, core, stopped, closed,
                       rsc, gen, serde>>

\* stop: 1 for stop_io, 0 for start_io, 2 for toggle_io
StopStep(op, o) ==
    /\ Alive
    /\ call' = Call(op, 0, 0, 0, 0, FALSE, <<>>, NoValue)
    /\ result' = IF o.res.kind = "Ok" THEN OkUnit ELSE o.res
    /\ xfers' = o.xfers
    /\ stopped' = IF o.res.kind = "Ok" THEN o.res.flag ELSE stopped
    /\ prev' = NoCall
    /\ UNCHANGED <<image, bridge, config, devcnt, core, lastmsg, closed,
                   rsc, gen, serde>>

Call_stop_io == StopStep("stop_io", stop_io(image, bridge, stopped))

Call_start_io == StopStep("start_io", start_io(image, bridge, stopped))

Call_toggle_io == StopStep("toggle_io", toggle_io(image, bridge, stopped))

Call_set_output_watchdog ==
    \E ms \in Millis :
        Step(Call("set_output_watchdog", 0, 0, ms, 0, FALSE, <<>>, NoValue),
             set_output_watchdog(image, ms))

Call_set_exported_outputs ==
    \E new \in InitImages :
        Step(Call("set_exported_outputs", 0, 0, 0, 0, FALSE, <<>>, NoValue),
             set_exported_outputs(image, new))

Call_update_device_firmware ==
    \E m \in DevAddrs :
        Step(Call("update_device_firmware", m, 0, 0, 0, FALSE, <<>>, NoValue),
             update_device_firmware(image, bridge, core, devcnt, m))

\* the call enters the ioctl and blocks
Call_wait_for_event ==
    /\ Alive
    /\ call' = Call("wait_for_event", 0, 0, 0, 0, FALSE, <<>>, NoValue)
    /\ result' = Blocked
    /\ xfers' = <<Xfer("WaitForEvent", 0, 0, 0, <<>>, <<>>)>>
    /\ prev' = NoCall
    /\ UNCHANGED <<image, bridge, config, devcnt, core>>
    /\ UNCHANGED rest

\* the resource signals an event and the blocked ioctl returns it
Return_wait_for_event ==
    \E e \in Events :
        /\ result.kind = "Blocked"
        /\ result' = wait_for_event(image, "", e).res
        /\ xfers' = wait_for_event(image, "", e).xfers
        /\ UNCHANGED <<image, bridge, config, devcnt, core, call, prev>>
        /\ UNCHANGED rest

\* another thread closes the descriptor and the blocked ioctl fails
Close_wait_for_event ==
    /\ result.kind = "Blocked"
    /\ closed' = TRUE
    /\ result' = wait_for_event(image, "EBADF", 0).res
    /\ xfers' = wait_for_event(image, "EBADF", 0).xfers
    /\ UNCHANGED <<image, bridge, config, devcnt, core, call, prev,
                   stopped, lastmsg, rsc, gen, serde>>

Next ==
    \/ Call_get_bit
    \/ Call_get_byte
    \/ Call_get_word
    \/ Call_get_dword
    \/ Call_set_bit
    \/ Call_set_byte
    \/ Call_set_word
    \/ Call_set_dword

NextName ==
    \/ Call_find_variable
    \/ Call_PiControl_set_value
    \/ Call_PiControl_get_value
    \/ Call_reset

NextDev ==
    \/ Call_dio_reset_counter
    \/ Call_get_device_info
    \/ Call_get_device_info_list
    \/ Call_reset

\* a field as the macro reads it: name, bit length, offset in its device and
\* bit position
Field(name, bit_length, offset, bit_position) ==
    InOutMem(name, 0, bit_length, offset, TRUE, 0, <<>>, bit_position)

\* one device at offset 0, its fields where the name table A has them
RscA ==
    RSC(<<Device(0,
                 (0 :> Field(NameI, 1, 0, Some(7))),
                 (0 :> Field(NameLED, 8, 0, None))
                     @@ (1 :> Field(NameD, 32, 0, None)),
                 (0 :> Field(NameW, 16, 0, None)))>>)

\* one device at the end of the image, its fields where the name table B
\* has them
RscB ==
    RSC(<<Device(KB_PI_LEN - 4,
                 <<>>,
                 (1 :> Field(NameLED, 8, 3, None))
                     @@ (5 :> Field(NameI, 1, 3, Some(0))),
                 (0 :> Field(NameD, 32, 0, None))
                     @@ (1 :> Field(NameW, 16, 2, None)))>>)

\* two devices
RscTwo ==
    RSC(<<Device(0,
                 (0 :> Field(NameI, 1, 0, Some(7))),
                 (0 :> Field(NameLED, 8, 0, None)),
                 <<>>),
          Device(KB_PI_LEN - 4,
                 <<>>,
                 <<>>,
                 (7 :> Field(NameW, 16, 2, None))
                     @@ (3 :> Field(NameD, 32, 0, None)))>>)

\* an output of 4 bits
RscBadLength ==
    RSC(<<Device(0,
                 <<>>,
                 (0 :> Field(NameLED, 8, 0, None))
                     @@ (1 :> Field(NameQ, 4, 1, None)),
                 <<>>)>>)

\* a 1-bit input without a bit position
RscNoPosition ==
    RSC(<<Device(0, (0 :> Field(NameI, 1, 0, None)), <<>>, <<>>)>>)

\* a device whose offset is past the range of a u16
RscFar ==
    RSC(<<Device(U16_MAX + 1,
                 (0 :> Field(NameI, 1, 0, Some(7))),
                 (0 :> Field(NameLED, 8, 0, None)),
                 <<>>)>>)

\* an input of 4 bits
RscBadInput ==
    RSC(<<Device(0,
                 (0 :> Field(NameQ, 4, 1, None)),
                 (0 :> Field(NameLED, 8, 0, None)),
                 <<>>)>>)

RSCs == {RSC(<<>>), RscA, RscB, RscTwo, RscBadLength, RscNoPosition, RscFar,
         RscBadInput}

\* the expansion of revpi_from_json!/revpi! at compile time
Generate ==
    /\ ~gen.done
    /\ call = NoCall
    /\ gen' = [panic |-> from_json(rsc).panic,
               functions |-> from_json(rsc).functions,
               done |-> TRUE]
    /\ UNCHANGED <<image, bridge, config, devcnt, core, call, result, xfers,
                   prev, stopped, lastmsg, closed, rsc, serde>>

Call_generated_get ==
    \E i \in 1..Len(gen.functions) :
        LET f == gen.functions[i] IN
        /\ f.kind = "get"
        /\ Step(Call("generated::get", f.address, 0, 0, 0, FALSE, f.name,
                     NoValue),
                generated_fn(image, bridge, f, NoValue))

Call_generated_set ==
    \E i \in 1..Len(gen.functions), v \in Values :
        LET f == gen.functions[i] IN
        /\ f.kind = "set"
        /\ v.tag = ArgTag(f)
        /\ Step(Call("generated::set", f.address, 0, 0, 0, FALSE, f.name, v),
                generated_fn(image, bridge, f, v))

\* the macro and the functions it generates, next to PiControl::set_value
InitGen ==
    /\ image \in InitImages
    /\ bridge \in BOOLEAN
    /\ call = NoCall
    /\ result = NoResult
    /\ xfers = <<>>
    /\ prev = NoCall
    /\ stopped = FALSE
    /\ lastmsg = <<>>
    /\ closed = FALSE
    /\ gen = NotGenerated
    /\ serde = Serde(InOutMem(<<>>, 0, 0, 0, FALSE, 0, <<>>, None))
    /\ rsc \in RSCs
    /\ config \in {"A", "B"}
    /\ devcnt = 1
    /\ core = TRUE

NextGen ==
    \/ Generate
    \/ Call_generated_get
    \/ Call_generated_set
    \/ Call_PiControl_set_value

\* the field records that are serialized
Items ==
    {InOutMem(n, df, bl, off, ex, sp, cm, bp) :
        n \in {NameLED, <<>>},
        df \in {0, 8, 2147483647},
        bl \in {1, 8, U8_MAX},
        off \in {0, 16},
        ex \in BOOLEAN,
        sp \in {0, 3, 9999, 10000, U16_MAX},
        cm \in {<<>>, <<97, 32, 99>>},
        bp \in {None, Some(0), Some(U8_MAX)}}

\* serde_json::to_value / to_string of a field record
Serialize ==
    /\ serde.stage = "new"
    /\ serde' = [serde EXCEPT !.stage = "serialized",
                              !.wire = InOutMem_serialize(serde.item)]
    /\ UNCHANGED <<image, bridge, config, devcnt, core, call, result, xfers,
                   prev, stopped, lastmsg, closed, rsc, gen>>

\* serde_json::from_value / from_str of what was serialized
Deserialize ==
    /\ serde.stage = "serialized"
    /\ serde.wire.err = ""
    /\ serde' = [serde EXCEPT !.stage = "deserialized",
                              !.back = InOutMem_deserialize(serde.wire.tup)]
    /\ UNCHANGED <<image, bridge, config, devcnt, core, call, result, xfers,
                   prev, stopped, lastmsg, closed, rsc, gen>>

\* the serialization of field records and its inverse
InitSer ==
    /\ image = EmptyImage
    /\ bridge = TRUE
    /\ call = NoCall
    /\ result = NoResult
    /\ xfers = <<>>
    /\ prev = NoCall
    /\ stopped = FALSE
    /\ lastmsg = <<>>
    /\ closed = FALSE
    /\ gen = NotGenerated
    /\ rsc = RSC(<<>>)
    /\ config = "A"
    /\ devcnt = 1
    /\ core = TRUE
    /\ \E item \in Items : serde = Serde(item)

NextSer ==
    \/ Serialize
    \/ Deserialize

\* the bit and byte accessors, called directly and through PiControl, on
\* a name table that holds the bit positions 7 and 8
InitSel ==
    /\ image = EmptyImage
    /\ bridge \in BOOLEAN
    /\ call = NoCall
    /\ result = NoResult
    /\ xfers = <<>>
    /\ prev = NoCall
    /\ stopped = FALSE
    /\ lastmsg = <<>>
    /\ closed = FALSE
    /\ gen = NotGenerated
    /\ serde = Serde(InOutMem(<<>>, 0, 0, 0, FALSE, 0, <<>>, None))
    /\ rsc = RSC(<<>>)
    /\ config = "C"
    /\ devcnt = 1
    /\ core = TRUE

NextSel ==
    \/ Call_get_bit
    \/ Call_get_byte
    \/ Call_set_bit
    \/ Call_set_byte
    \/ Call_PiControl_set_value
    \/ Call_PiControl_get_value

\* every method of PiControlRaw, called once on a handle that was just
\* opened, for every state the resource can be in at that moment
InitRaw ==
    /\ image \in InitImages
    /\ bridge \in BOOLEAN
    /\ call = NoCall
    /\ result = NoResult
    /\ xfers = <<>>
    /\ prev = NoCall
    /\ stopped \in BOOLEAN
    /\ lastmsg = <<>>
    /\ closed = FALSE
    /\ gen = NotGenerated
    /\ serde = Serde(InOutMem(<<>>, 0, 0, 0, FALSE, 0, <<>>, None))
    /\ rsc = RSC(<<>>)
    /\ config \in Configs
    /\ devcnt \in DevCounts
    /\ core \in BOOLEAN

FirstCall == call = NoCall \/ result.kind = "Blocked"

First_get_bit == FirstCall /\ Call_get_bit

First_get_byte == FirstCall /\ Call_get_byte

First_get_word == FirstCall /\ Call_get_word

First_get_dword == FirstCall /\ Call_get_dword

First_set_bit == FirstCall /\ Call_set_bit

First_set_byte == FirstCall /\ Call_set_byte

First_set_word == FirstCall /\ Call_set_word

First_set_dword == FirstCall /\ Call_set_dword

First_find_variable == FirstCall /\ Call_find_variable

First_dio_reset_counter == FirstCall /\ Call_dio_reset_counter

First_get_device_info == FirstCall /\ Call_get_device_info

First_get_device_info_list == FirstCall /\ Call_get_device_info_list

First_reset == FirstCall /\ Call_reset

First_get_last_message == FirstCall /\ Call_get_last_message

First_stop_io == FirstCall /\ Call_stop_io

First_start_io == FirstCall /\ Call_start_io

First_toggle_io == FirstCall /\ Call_toggle_io

First_set_output_watchdog == FirstCall /\ Call_set_output_watchdog

First_set_exported_outputs == FirstCall /\ Call_set_exported_outputs

First_update_device_firmware == FirstCall /\ Call_update_device_firmware

First_wait_for_event == FirstCall /\ Call_wait_for_event

NextRaw ==
    \/ First_get_bit
    \/ First_get_byte
    \/ First_get_word
    \/ First_get_dword
    \/ First_set_bit
    \/ First_set_byte
    \/ First_set_word
    \/ First_set_dword
    \/ First_find_variable
    \/ First_dio_reset_counter
    \/ First_get_device_info
    \/ First_get_device_info_list
    \/ First_reset
    \/ First_get_last_message
    \/ First_stop_io
    \/ First_start_io
    \/ First_toggle_io
    \/ First_set_output_watchdog
    \/ First_set_exported_outputs
    \/ First_update_device_firmware
    \/ First_wait_for_event
    \/ Return_wait_for_event
    \/ Close_wait_for_event

\* the control operations that do not touch the image
InitCtl ==
    /\ InitCommon
    /\ rsc = RSC(<<>>)
    /\ config = "A"
    /\ devcnt \in {0, 1}
    /\ core = TRUE

NextCtl ==
    \/ Call_get_last_message
    \/ Call_stop_io
    \/ Call_start_io
    \/ Call_toggle_io
    \/ Call_set_output_watchdog
    \/ Call_wait_for_event
    \/ Return_wait_for_event
    \/ Close_wait_for_event
    \/ Call_reset

\* the operations that issue a control request, on a resource whose bridge
\* is down
InitDown ==
    /\ InitCommon
    /\ rsc = RSC(<<>>)
    /\ bridge = FALSE
    /\ config \in Configs
    /\ devcnt \in DevCounts
    /\ core \in BOOLEAN

NextDown ==
    \/ Call_get_bit
    \/ Call_get_byte
    \/ Call_set_bit
    \/ Call_set_byte
    \/ Call_find_variable
    \/ Call_get_device_info
    \/ Call_stop_io
    \/ Call_start_io
    \/ Call_toggle_io
    \/ Call_set_output_watchdog
    \/ Call_dio_reset_counter

Spec == Init /\ [][Next]_vars

SpecCtl == InitCtl /\ [][NextCtl]_vars

SpecDown == InitDown /\ [][NextDown]_vars

SpecGen == InitGen /\ [][NextGen]_vars

SpecSer == InitSer /\ [][NextSer]_vars

SpecSel == InitSel /\ [][NextSel]_vars

SpecRaw == InitRaw /\ [][NextRaw]_vars

SpecName == InitName /\ [][NextName]_vars

SpecDev == InitDev /\ [][NextDev]_vars

TypeOK ==
    /\ \A a \in DOMAIN image : a \in 0..(KB_PI_LEN - 1) /\ image[a] \in 1..U8_MAX
    /\ result.kind \in {"None", "Ok", "Err", "Panic", "UB", "Blocked"}
    /\ Len(xfers) <= 2


(* ---------------- properties ---------------- *)

BitByteOps == {"get_bit", "get_byte", "set_bit", "set_byte"}

LookupOps == {"find_variable", "PiControl::set_value", "PiControl::get_value"}

WriteReqs == {"SetValue", "pwrite"}

HasNul(name) == \E i \in 1..Len(name) : name[i] = 0

Found(cfg, name) == \E e \in VarTable(cfg) : e.name = name

TableVar(cfg, name) == (CHOOSE e \in VarTable(cfg) : e.name = name).var

\* C1: get_bit, get_byte, set_bit and set_byte at an address >= KB_PI_LEN
\* return InvalidArgument("address") and issue no transfer; at an address
\* <= KB_PI_LEN - 1, with the bridge running, they issue exactly the one
\* control transfer for that address and return Ok.
C1_AddressValidation ==
    call.op \in BitByteOps =>
        /\ call.address >= KB_PI_LEN =>
               /\ result = Err("InvalidArgument", "address", 0)
               /\ xfers = <<>>
        /\ (call.address <= KB_PI_LEN - 1 /\ bridge) =>
               /\ result.kind = "Ok"
               /\ Len(xfers) = 1
               /\ xfers[1].req = (IF call.op \in {"get_bit", "get_byte"}
                                  THEN "GetValue" ELSE "SetValue")
               /\ xfers[1].address = call.address

\* a get at the first invalid address is refused right after a set at the
\* last valid address succeeded
C1_Witness ==
    /\ prev.op = "set_byte"
    /\ prev.address = KB_PI_LEN - 1
    /\ call.op = "get_bit"
    /\ call.address = KB_PI_LEN
    /\ result = Err("InvalidArgument", "address", 0)
    /\ xfers = <<>>

\* C2: PiControl::set_value on a name that resolves to a field of 1, 8, 16
\* or 32 bits returns InvalidArgument("value or str") and issues no write
\* unless the variant of the value matches the length (Bit/1, Byte/8,
\* Word/16, DWord/32); on a match it issues the write of the accessor of
\* that width at the resolved address.
C2_LengthMatch ==
    (call.op = "PiControl::set_value" /\ bridge /\ Found(config, call.name)) =>
        LET var == TableVar(config, call.name)
            match == <<call.v.tag, var.i16uLength>> \in
                         {<<"Bit", 1>>, <<"Byte", 8>>, <<"Word", 16>>,
                          <<"DWord", 32>>}
        IN IF ~match
           THEN /\ result = Err("InvalidArgument", "value or str", 0)
                /\ \A i \in 1..Len(xfers) : xfers[i].req \notin WriteReqs
           ELSE /\ Len(xfers) = 2
                /\ xfers[2].address = var.i16uAddress
                /\ CASE call.v.tag = "Bit" ->
                          /\ xfers[2].req = "SetValue"
                          /\ xfers[2].bit = var.i8uBit
                          /\ xfers[2].bit \in 0..7
                     [] call.v.tag = "Byte" ->
                          xfers[2].req = "SetValue" /\ xfers[2].bit = 8
                     [] call.v.tag = "Word" ->
                          xfers[2].req = "pwrite" /\ Len(xfers[2].bytes) = 2
                     [] OTHER ->
                          xfers[2].req = "pwrite" /\ Len(xfers[2].bytes) = 4

\* a Word offered to an 8-bit field is refused after the lookup
C2_Witness ==
    /\ call.op = "PiControl::set_value"
    /\ Found(config, call.name)
    /\ TableVar(config, call.name).i16uLength = 8
    /\ call.v.tag = "Word"
    /\ result = Err("InvalidArgument", "value or str", 0)
    /\ Len(xfers) = 1

C4_LittleEndianLayout ==
    /\ (call.op = "set_word" /\ bridge /\ call.address + 2 <= KB_PI_LEN) =>
           /\ ImgAt(image, call.address) = call.value % 256
           /\ ImgAt(image, call.address + 1) = call.value \div 256
    /\ (call.op = "set_dword" /\ bridge /\ call.address + 4 <= KB_PI_LEN) =>
           /\ ImgAt(image, call.address) = call.value % 256
           /\ ImgAt(image, call.address + 1) = call.value \div 256
           /\ ImgAt(image, call.address + 2) = call.hi % 256
           /\ ImgAt(image, call.address + 3) = call.hi \div 256
    /\ (call.op = "get_word" /\ result.kind = "Ok") =>
           result.val = ImgAt(image, call.address)
                        + 256 * ImgAt(image, call.address + 1)
    /\ (call.op = "get_dword" /\ result.kind = "Ok") =>
           /\ result.val = ImgAt(image, call.address)
                           + 256 * ImgAt(image, call.address + 1)
           /\ result.hi = ImgAt(image, call.address + 2)
                          + 256 * ImgAt(image, call.address + 3)

\* C5: a lookup of a name of more than 31 bytes returns InvalidArgument and
\* issues no transfer; a name of exactly 31 bytes passes the length check
\* and the find-variable transfer is issued with that name.
C5_NameLength ==
    (call.op \in LookupOps /\ ~HasNul(call.name)) =>
        /\ Len(call.name) > NAME_BUF_LEN - 1 =>
               /\ result.kind = "Err"
               /\ result.err = "InvalidArgument"
               /\ xfers = <<>>
        /\ Len(call.name) = NAME_BUF_LEN - 1 =>
               /\ Len(xfers) >= 1
               /\ xfers[1].req = "FindVariable"
               /\ xfers[1].name = call.name

\* a name of 32 bytes is refused without a transfer
C5_Witness ==
    /\ call.op = "find_variable"
    /\ Len(call.name) = NAME_BUF_LEN
    /\ result.err = "InvalidArgument"
    /\ xfers = <<>>

\* C6: dio_reset_counter with bitfield 0 returns InvalidArgument and issues
\* no transfer, whatever the device address; with a non-zero bitfield it
\* issues the transfer carrying the address and the bitfield as given.
C6_ZeroBitfield ==
    call.op = "dio_reset_counter" =>
        /\ call.value = 0 =>
               /\ result = Err("InvalidArgument", "bitfield", 0)
               /\ xfers = <<>>
        /\ call.value # 0 =>
               xfers = <<Xfer("DIOResetCounter", call.address, 0, call.value,
                              <<>>, <<>>)>>

\* bitfield 0 for a device that exists is refused without a transfer
C6_Witness ==
    /\ call.op = "dio_reset_counter"
    /\ call.value = 0
    /\ call.address < devcnt
    /\ bridge /\ core
    /\ result.err = "InvalidArgument"
    /\ xfers = <<>>

\* C7 (as claimed): get_device_info_list on a resource that reports more
\* than REV_PI_DEV_CNT_MAX devices ends in a protocol fault (the panic of the
\* assertion) and returns no collection.
C7_OverCountFaults ==
    (call.op = "get_device_info_list" /\ devcnt > REV_PI_DEV_CNT_MAX) =>
        result.kind = "Panic"

\* C8: a lookup fails with NoVarEntries when the resource has no variables,
\* with InvalidArgument("name") when it has variables but not this name, and
\* with InvalidArgument("length of name") when the name is too long; the
\* three error values differ pairwise.
C8_LookupErrors ==
    /\ (call.op \in LookupOps /\ ~HasNul(call.name)) =>
        /\ Len(call.name) > NAME_BUF_LEN - 1 =>
               result = Err("InvalidArgument", "length of name", 0)
        /\ (Len(call.name) <= NAME_BUF_LEN - 1 /\ bridge
            /\ VarTable(config) = {}) =>
               result = Err("NoVarEntries", "", 0)
        /\ (Len(call.name) <= NAME_BUF_LEN - 1 /\ bridge
            /\ VarTable(config) # {} /\ ~Found(config, call.name)) =>
               result = Err("InvalidArgument", "name", 0)
    /\ Cardinality({Err("InvalidArgument", "length of name", 0),
                    Err("NoVarEntries", "", 0),
                    Err("InvalidArgument", "name", 0)}) = 3

\* an unknown name on a resource that has variables
C8_Witness ==
    /\ call.op = "find_variable"
    /\ VarTable(config) # {}
    /\ ~Found(config, call.name)
    /\ result = Err("InvalidArgument", "name", 0)

\* C9: get_device_info returns the record of the device with the requested
\* address when the resource has one, and DeviceNotFound carrying the
\* requested address otherwise.
C9_DeviceInfo ==
    call.op = "get_device_info" =>
        IF \E i \in 1..devcnt : SDeviceInfo(i).i8uAddress = call.address
        THEN /\ result.kind = "Ok"
             /\ result.val = call.address
             /\ \E i \in 1..devcnt :
                    /\ SDeviceInfo(i).i8uAddress = call.address
                    /\ SDeviceInfo(i).i32uSerialNumber = result.hi
        ELSE result = Err("DeviceNotFound", "", call.address)

\* address 31 on a resource with one device
C9_Witness ==
    /\ call.op = "get_device_info"
    /\ call.address = 31
    /\ devcnt = 1
    /\ result = Err("DeviceNotFound", "", 31)

\* C10 (as claimed): a reset whose bridge restart times out returns a
\* Timeout error value and does not end the process.
C10_TimeoutReturned ==
    (call.op = "reset" /\ ~bridge) =>
        result.kind = "Err" /\ result.err = "Timeout"

\* C10 (amended): a reset whose bridge restart times out panics with the
\* message of the timeout and returns nothing; a reset that succeeds
\* returns the unit value.
C10_TimeoutPanics ==
    call.op = "reset" =>
        IF ~bridge
        THEN result = Panic("couldn't restart because bridge didn't come up; timedout")
        ELSE result = OkUnit

\* a reset that timed out
C10_Witness ==
    /\ call.op = "reset"
    /\ ~bridge
    /\ result.kind = "Panic"
    /\ xfers = <<Xfer("Reset", 0, 0, 0, <<>>, <<>>)>>

\* C11: get_last_message returns the message the resource holds, for every
\* message of 0 to REV_PI_ERROR_MSG_LEN - 1 bytes.
C11_LastMessage ==
    call.op = "get_last_message" => result = OkText(lastmsg)

\* C12: wait_for_event returns Event::Reset once the resource signals a
\* reset, and returns an IoError to its caller when the descriptor is closed
\* while it blocks.
C12_WaitForEvent ==
    (call.op = "wait_for_event" /\ result.kind # "Blocked") =>
        IF closed
        THEN result.kind = "Err" /\ result.err = "IoError"
        ELSE xfers[1].value = 1 => result = Ok(1, FALSE)

\* the calls whose control request the resource refuses while the bridge
\* is down
NeedsBridge ==
    \/ call.op \in BitByteOps /\ call.address < KB_PI_LEN
    \/ call.op = "find_variable" /\ Len(call.name) + 1 <= NAME_BUF_LEN
    \/ call.op \in {"stop_io", "start_io", "toggle_io"}
    \/ call.op = "dio_reset_counter" /\ call.value # 0 /\ core

\* C13: a control operation whose transfer fails because the bridge is not
\* running returns an IoError value and does not end the process.
C13_TransportFailureReturned ==
    (NeedsBridge /\ ~bridge) =>
        result.kind = "Err" /\ result.err = "IoError"

\* C13 (amended): get_bit, get_byte, set_bit and set_byte at a valid
\* address, find_variable with a name that fits, stop_io, start_io,
\* toggle_io and dio_reset_counter with a non-zero bitfield on a Core or
\* Connect panic with "bridge wasn't running" when the bridge is down, and
\* change neither the image nor the I/O state; get_device_info and
\* set_output_watchdog do not depend on the bridge and do not panic.
C13_BridgeDownPanics ==
    ~bridge =>
        /\ NeedsBridge =>
               /\ result = Panic("bridge wasn't running")
               /\ Len(xfers) = 1
        /\ call.op \in {"get_device_info", "set_output_watchdog"} =>
               result.kind \in {"Ok", "Err"} /\ result.err # "IoError"
        /\ call.op = "set_output_watchdog" => result = OkUnit

\* toggle_io on a bridge that is down, after a watchdog was set on it
C13_Witness ==
    /\ call.op = "toggle_io"
    /\ ~bridge
    /\ result = Panic("bridge wasn't running")
    /\ xfers = <<Xfer("StopIO", 0, 0, 2, <<>>, <<>>)>>
    /\ ~stopped

\* C14: PiControl::get_value on a name that resolves returns the Value
\* variant of the resolved length (1 Bit, 8 Byte, 16 Word, 32 DWord) whose
\* payload is the content of the image at the resolved address: the bit at
\* the resolved position, the byte, or the 2 or 4 bytes from the address
\* on, the first byte the least significant.
C14_GetValue ==
    (call.op = "PiControl::get_value" /\ bridge /\ Found(config, call.name)) =>
        LET var == TableVar(config, call.name)
            a == var.i16uAddress
        IN /\ result.kind = "Ok"
           /\ CASE var.i16uLength = 1 ->
                     result = OkValue(ValueBit(
                                  BitOf(ImgAt(image, a), var.i8uBit) = 1))
                [] var.i16uLength = 8 ->
                     result = OkValue(ValueByte(ImgAt(image, a)))
                [] var.i16uLength = 16 ->
                     result = OkValue(ValueWord(
                                  ImgAt(image, a) + 256 * ImgAt(image, a + 1)))
                [] var.i16uLength = 32 ->
                     result = OkValue(ValueDWord(
                                  ImgAt(image, a + 2) + 256 * ImgAt(image, a + 3),
                                  ImgAt(image, a) + 256 * ImgAt(image, a + 1)))
                [] OTHER -> FALSE

\* a word read by name: the bytes DD, CC at addresses 0, 1 as CCDD
C14_Witness ==
    /\ call.op = "PiControl::get_value"
    /\ call.name = NameW
    /\ config = "A"
    /\ ImgAt(image, 0) = 221
    /\ ImgAt(image, 1) = 204
    /\ result = OkValue(ValueWord(52445))

WordOps == {"get_word", "set_word", "get_dword", "set_dword"}

\* the number of bytes a word or dword call transfers
SizeOf(op) == IF op \in {"get_word", "set_word"} THEN 2 ELSE 4

\* C15: with the bridge running, a word or dword call whose address +
\* size exceeds KB_PI_LEN fails with IoError and leaves the image as it was,
\* and one whose address + size is at most KB_PI_LEN succeeds.
C15_WordBounds ==
    [][(call'.op \in WordOps /\ bridge) =>
           IF call'.address + SizeOf(call'.op) > KB_PI_LEN
           THEN /\ result'.kind = "Err"
                /\ result'.err = "IoError"
                /\ image' = image
           ELSE result'.kind = "Ok"]_vars

Range(seq) == {seq[i] : i \in 1..Len(seq)}

HasFn(kind, name) ==
    \E i \in 1..Len(gen.functions) :
        gen.functions[i].kind = kind /\ gen.functions[i].name = name

\* the fields of a device, by direction
Inputs(d) == Range(values(d.inp))

OutMems(d) == Range(values(d.out)) \cup Range(values(d.mem))

\* a field the generator cannot bind: a length other than 1, 8, 16, 32, or
\* one bit without a bit position
Unbindable(item) ==
    \/ item.bit_length \notin {1, 8, 16, 32}
    \/ item.bit_length = 1 /\ item.bit_position = None

\* C16: once the macro has expanded a configuration all of whose fields can
\* be bound, there is a getter and no setter for every input, a getter and a
\* setter for every output and every memory field, and nothing else: the
\* number of functions is inputs + 2 * (outputs + memory fields).  (A field
\* that cannot be bound ends the expansion with a panic.)
C16_GettersAndSetters ==
    gen.done =>
        IF \E d \in Range(rsc.devices) :
               \E item \in Inputs(d) \cup OutMems(d) : Unbindable(item)
        THEN gen.panic # "" /\ gen.functions = <<>>
        ELSE /\ gen.panic = ""
             /\ \A d \in Range(rsc.devices) :
                    /\ \A item \in Inputs(d) :
                           HasFn("get", item.name) /\ ~HasFn("set", item.name)
                    /\ \A item \in OutMems(d) :
                           HasFn("get", item.name) /\ HasFn("set", item.name)
             /\ \A i \in 1..Len(gen.functions) :
                    \E d \in Range(rsc.devices) :
                        \E item \in Inputs(d) \cup OutMems(d) :
                            item.name = gen.functions[i].name
             /\ \A i, j \in 1..Len(gen.functions) :
                    (/\ gen.functions[i].kind = gen.functions[j].kind
                     /\ gen.functions[i].name = gen.functions[j].name) => i = j

\* two devices expanded: the input I has a getter only, the output LED and
\* the memory fields W and D a getter and a setter each
C16_Witness ==
    /\ gen.done
    /\ rsc = RscTwo
    /\ Len(gen.functions) = 7
    /\ HasFn("get", NameI) /\ ~HasFn("set", NameI)
    /\ HasFn("set", NameLED) /\ HasFn("set", NameW) /\ HasFn("set", NameD)

\* the entry of the name table agrees with the metadata of the field
Agrees(cfg, d, item) ==
    /\ Found(cfg, item.name)
    /\ TableVar(cfg, item.name).i16uAddress = d.offset + item.offset
    /\ TableVar(cfg, item.name).i16uLength = item.bit_length
    /\ item.bit_length = 1 =>
           item.bit_position = Some(TableVar(cfg, item.name).i8uBit)

\* the values of the type of a field of the given length
ValuesOf(bit_length) ==
    CASE bit_length = 1 -> {ValueBit(TRUE), ValueBit(FALSE)}
      [] bit_length = 8 -> {ValueByte(n) : n \in {0, 1, 42, 128, U8_MAX}}
      [] bit_length = 16 -> {ValueWord(n) : n \in {0, 4660, U16_MAX}}
      [] bit_length = 32 -> {ValueDWord(43707, 52445), ValueDWord(0, 1)}
      [] OTHER -> {}

\* C17: in every state, for every output or memory field whose entry in the
\* name table agrees with the metadata, the generated setter is there and
\* leaves the image as PiControl::set_value by name does (and, with the
\* bridge running, returns the same result), for every value of the type of
\* the field; and LED = 42 set by either path at address 0 leaves 42 at
\* address 0.
C17_SetterEquivalence ==
    /\ (gen.done /\ gen.panic = "") =>
           \A d \in Range(rsc.devices) :
               \A item \in OutMems(d) :
                   Agrees(config, d, item) =>
                       LET f == set_fn(d.offset, item).functions[1] IN
                       /\ f \in Range(gen.functions)
                       /\ \A v \in ValuesOf(item.bit_length) :
                              LET g == generated_fn(image, bridge, f, v)
                                  p == PiControl_set_value(image, config,
                                                           bridge, item.name, v)
                              IN /\ g.image = p.image
                                 /\ bridge => g.res = p.res
    /\ (/\ call.name = NameLED
        /\ call.v = ValueByte(42)
        /\ bridge
        /\ \/ call.op = "generated::set" /\ call.address = 0
           \/ call.op = "PiControl::set_value" /\ config = "A") =>
           result = OkUnit /\ ImgAt(image, 0) = 42

\* the generated set_LED(42) has written 42 at address 0, where
\* set_value("LED", Byte(42)) writes it in this state
C17_Witness ==
    /\ call.op = "generated::set"
    /\ call.name = NameLED
    /\ call.v = ValueByte(42)
    /\ rsc = RscA
    /\ config = "A"
    /\ result = OkUnit
    /\ ImgAt(image, 0) = 42
    /\ PiControl_set_value(PresetImage, config, bridge, NameLED,
                           ValueByte(42)).image = image

IsDecimal(str) ==
    /\ str # <<>>
    /\ \A i \in 1..Len(str) : str[i] \in 48..57
    /\ Len(str) > 1 => str[1] # 48

\* C18: a field record whose sort position is at most 9999 serializes
\* without error to 8 elements: default, bit_length and offset as decimal
\* strings, the sort position as 4 digits, the bit position as its decimal
\* string or, when absent, as the empty string; and what this deserializes
\* to equals the record.
C18_RoundTrip ==
    (serde.stage # "new" /\ serde.item.sort_pos <= 9999) =>
        /\ serde.wire.err = ""
        /\ Len(serde.wire.tup) = 8
        /\ \A i \in {2, 3, 4} : IsDecimal(serde.wire.tup[i])
        /\ Len(serde.wire.tup[6]) = 4
        /\ \A i \in 1..4 : serde.wire.tup[6][i] \in 48..57
        /\ IF serde.item.bit_position = None
           THEN serde.wire.tup[8] = <<>>
           ELSE IsDecimal(serde.wire.tup[8])
        /\ serde.stage = "deserialized" =>
               /\ serde.back.err = ""
               /\ serde.back.item = serde.item

\* the record of the crate's tests without bit position (default 8,
\* length 8, offset 16, sort position 3) went through "8", "8", "16",
\* "0003", "" and came back equal
C18_Witness ==
    /\ serde.stage = "deserialized"
    /\ serde.item = InOutMem(NameLED, 8, 8, 16, TRUE, 3, <<97, 32, 99>>, None)
    /\ serde.wire.tup = <<NameLED, <<56>>, <<56>>, <<49, 54>>, TRUE,
                          <<48, 48, 48, 51>>, <<97, 32, 99>>, <<>> >>
    /\ serde.back.item = serde.item

\* C19: get_device_info_list on a resource that reports at most
\* REV_PI_DEV_CNT_MAX devices returns a collection of exactly that many
\* records (the allocation of the buffer having succeeded).
C19_ListDevices ==
    (/\ call.op = "get_device_info_list"
     /\ devcnt <= REV_PI_DEV_CNT_MAX
     /\ result.arg # "out of memory") =>
        result = Ok(devcnt, FALSE)

ValueReqs == {"GetValue", "SetValue"}

Widths == {1, 8, 16, 32}

ImageReqs == {"GetValue", "SetValue", "pread", "pwrite"}

\* C21: PiControl::get_value on a name whose lookup gives a length other
\* than 1, 8, 16 or 32 panics with "invalid bitlength from piControl" and
\* returns no Value; the lookup is its only transfer, the image is not read.
C21_InvalidLength ==
    (/\ call.op = "PiControl::get_value"
     /\ bridge
     /\ Found(config, call.name)
     /\ TableVar(config, call.name).i16uLength \notin Widths) =>
        /\ result = Panic("invalid bitlength from piControl")
        /\ result.value = NoValue
        /\ Len(xfers) = 1
        /\ xfers[1].req = "FindVariable"
        /\ \A i \in 1..Len(xfers) : xfers[i].req \notin ImageReqs

\* a field of 4 bits read by name
C21_Witness ==
    /\ call.op = "PiControl::get_value"
    /\ call.name = NameQ
    /\ bridge
    /\ TableVar(config, call.name).i16uLength = 4
    /\ result = Panic("invalid bitlength from piControl")
    /\ xfers = <<Xfer("FindVariable", 0, 0, 0, NameQ, <<>>)>>

FacadeOps == {"PiControl::set_value", "PiControl::get_value"}

\* C22 (as claimed): every call of PiControl::get_value or set_value issues
\* exactly one FindVariable transfer, for its own name, followed by at most
\* one transfer on the image, which goes to the address the name has in the
\* table loaded at the time of the call.
C22_OneLookupPerCall ==
    call.op \in FacadeOps =>
        /\ Len(xfers) \in {1, 2}
        /\ xfers[1] = Xfer("FindVariable", 0, 0, 0, call.name, <<>>)
        /\ Len(xfers) = 2 =>
               /\ xfers[2].req \in ImageReqs
               /\ Found(config, call.name)
               /\ xfers[2].address = TableVar(config, call.name).i16uAddress

\* a name that can be looked up: no NUL in it, and with its terminator at
\* most NAME_BUF_LEN bytes
Lookable(name) == ~HasNul(name) /\ Len(name) + 1 <= NAME_BUF_LEN

\* C22 (amended): a call of PiControl::get_value or set_value whose name
\* can be looked up issues exactly one FindVariable transfer, for its own
\* name, followed by at most one transfer on the image, which goes to the
\* address the name has in the table loaded at the time of the call; a call
\* whose name holds a NUL or is too long issues no transfer at all.
C22_Stateless ==
    call.op \in FacadeOps =>
        IF ~Lookable(call.name)
        THEN xfers = <<>> /\ result.kind = "Err"
        ELSE /\ Len(xfers) \in {1, 2}
             /\ xfers[1] = Xfer("FindVariable", 0, 0, 0, call.name, <<>>)
             /\ Len(xfers) = 2 =>
                    /\ xfers[2].req \in ImageReqs
                    /\ Found(config, call.name)
                    /\ xfers[2].address =
                           TableVar(config, call.name).i16uAddress

\* LED read at the end of the image under table B, in an image whose byte 0
\* holds the 42 that only set_value("LED") under table A writes there: the
\* table was exchanged by a reset between the two calls
C22_Witness ==
    /\ call.op = "PiControl::get_value"
    /\ call.name = NameLED
    /\ config = "B"
    /\ ImgAt(image, 0) = 42
    /\ Len(xfers) = 2
    /\ xfers[2].address = KB_PI_LEN - 1
    /\ result = OkValue(ValueByte(ImgAt(image, KB_PI_LEN - 1)))

\* the fields of the configuration with the offset of their device
FieldsOf(rsc_) ==
    UNION {{[offset |-> d.offset, item |-> item] :
               item \in Inputs(d) \cup OutMems(d)} :
           d \in Range(rsc_.devices)}

GeneratedOps == {"generated::get", "generated::set"}

\* C23: every generated function carries as its address the offset of the
\* device plus the offset of the field in it, and a call of a generated
\* function issues no FindVariable transfer.
C23_AddressLiteral ==
    /\ (gen.done /\ gen.panic = "") =>
           \A f \in Range(gen.functions) :
               \E x \in FieldsOf(rsc) :
                   /\ x.item.name = f.name
                   /\ f.address = x.offset + x.item.offset
    /\ call.op \in GeneratedOps =>
           \A i \in 1..Len(xfers) : xfers[i].req # "FindVariable"

\* the accessor of PiControlRaw a function of the given kind is bound to
\* for a field of the given length
BoundTo(kind, bit_length) ==
    CASE bit_length = 1 -> IF kind = "get" THEN "get_bit" ELSE "set_bit"
      [] bit_length = 8 -> IF kind = "get" THEN "get_byte" ELSE "set_byte"
      [] bit_length = 16 -> IF kind = "get" THEN "get_word" ELSE "set_word"
      [] bit_length = 32 -> IF kind = "get" THEN "get_dword" ELSE "set_dword"
      [] OTHER -> "none"

\* C24: when a field of the configuration has a bit_length other than 1, 8,
\* 16 or 32, the expansion panics and emits no function at all; when it
\* completes, every function is bound to the bit, byte, word or dword
\* accessor according to the bit_length 1, 8, 16 or 32 of its field.
C24_InvalidBitLength ==
    gen.done =>
        /\ (\E x \in FieldsOf(rsc) : x.item.bit_length \notin Widths) =>
               /\ gen.panic # ""
               /\ gen.functions = <<>>
               /\ (\A x \in FieldsOf(rsc) :
                      ~(x.item.bit_length = 1 /\ x.item.bit_position = None)) =>
                      gen.panic = "invalid bitlength"
        /\ gen.panic = "" =>
               \A f \in Range(gen.functions) :
                   \E x \in FieldsOf(rsc) :
                       /\ x.item.name = f.name
                       /\ x.item.bit_length \in Widths
                       /\ f.function = BoundTo(f.kind, x.item.bit_length)

\* the expansion of a configuration with an input of 4 bits has panicked
C24_Witness ==
    /\ gen.done
    /\ rsc = RscBadInput
    /\ gen.panic = "invalid bitlength"
    /\ gen.functions = <<>>

\* the fields of one collection of device number k, with the rank of the
\* collection (0 inp, 1 out, 2 mem) and their keys
Keyed(k, sec, map) ==
    {[dev |-> k, sec |-> sec, key |-> key, item |-> map[key]] :
        key \in DOMAIN map}

\* the fields of the configuration with their place in it
Located(rsc_) ==
    UNION {Keyed(k, 0, rsc_.devices[k].inp)
               \cup Keyed(k, 1, rsc_.devices[k].out)
               \cup Keyed(k, 2, rsc_.devices[k].mem) :
           k \in 1..Len(rsc_.devices)}

\* the place of the field a generated function belongs to, followed by 0
\* for a getter and 1 for a setter
PlaceOf(f) ==
    LET x == CHOOSE y \in Located(rsc) : y.item.name = f.name
    IN <<x.dev, x.sec, x.key, IF f.kind = "get" THEN 0 ELSE 1>>

\* the lexicographic order of two places
Before(a, b) ==
    \E i \in 1..4 : a[i] < b[i] /\ \A j \in 1..(i - 1) : a[j] = b[j]

\* C25: what an expansion emits is fixed by the configuration: the
\* functions stand in the order of the devices, within a device inputs
\* before outputs before memory fields, within a collection in ascending
\* order of the keys, the getter of a field before its setter; and another
\* expansion of the same configuration emits the same sequence.
C25_Order ==
    (gen.done /\ gen.panic = "") =>
        /\ \A i, j \in 1..Len(gen.functions) :
               i < j => Before(PlaceOf(gen.functions[i]),
                               PlaceOf(gen.functions[j]))
        /\ from_json(rsc).functions = gen.functions

\* two devices expanded: I, LED, LED of the first, then D (key 3) and W
\* (key 7) of the second
C25_Witness ==
    /\ gen.done
    /\ rsc = RscTwo
    /\ Len(gen.functions) = 7
    /\ gen.functions[1].name = NameI
    /\ gen.functions[2].name = NameLED /\ gen.functions[2].kind = "get"
    /\ gen.functions[3].name = NameLED /\ gen.functions[3].kind = "set"
    /\ gen.functions[4].name = NameD /\ gen.functions[4].kind = "get"
    /\ gen.functions[6].name = NameW /\ gen.functions[7].kind = "set"

StopOps == {"stop_io", "start_io", "toggle_io"}

RawOps ==
    {"get_bit", "get_byte", "get_word", "get_dword", "set_bit", "set_byte",
     "set_word", "set_dword", "find_variable", "dio_reset_counter",
     "get_device_info", "get_device_info_list", "reset", "get_last_message",
     "stop_io", "start_io", "toggle_io", "set_output_watchdog",
     "set_exported_outputs", "update_device_firmware", "wait_for_event"}

\* the argument checks of PiControlRaw: the address of a bit or byte access,
\* the length of a name, the bitfield of a counter reset
ArgCheckFails ==
    \/ /\ call.op \in {"get_bit", "get_byte", "set_bit", "set_byte"}
       /\ ~(call.address < KB_PI_LEN)
    \/ call.op = "find_variable" /\ ~(Len(call.name) + 1 <= NAME_BUF_LEN)
    \/ call.op = "dio_reset_counter" /\ ~(call.value # 0)

C28_WordSettersSucceed ==
    (/\ call.op \in {"set_word", "set_dword"}
     /\ bridge
     /\ call.address + SizeOf(call.op) <= KB_PI_LEN) => result.kind = "Ok"

\* C29: PiControl::set_value on a name whose resolved length is not one of
\* 1, 8, 16, 32 returns InvalidArgument("value or str") for every Value, does
\* not panic, issues no request that touches the image and leaves the image
\* as it was.
C29_SetInvalidLength ==
    [][(/\ call'.op = "PiControl::set_value"
        /\ bridge'
        /\ Found(config', call'.name)
        /\ TableVar(config', call'.name).i16uLength \notin Widths) =>
           /\ result' = Err("InvalidArgument", "value or str", 0)
           /\ image' = image
           /\ \A i \in 1..Len(xfers') : xfers'[i].req \notin ImageReqs]_vars

C29_Witness ==
    /\ call.op = "PiControl::set_value"
    /\ call.name = NameD
    /\ call.v = ValueDWord(43707, 52445)
    /\ bridge
    /\ TableVar(config, call.name).i16uLength = 64
    /\ result = Err("InvalidArgument", "value or str", 0)
    /\ xfers = <<Xfer("FindVariable", 0, 0, 0, NameD, <<>>)>>

\* the methods that only read
ReadOps ==
    {"get_bit", "get_byte", "get_word", "get_dword", "find_variable",
     "get_device_info", "get_device_info_list"}

\* the bytes of two images agree everywhere outside the addresses in unit
SameOutside(old, new, unit) ==
    \A x \in ((DOMAIN old) \cup (DOMAIN new)) \ unit : ImgAt(new, x) = ImgAt(old, x)

\* C30: a set changes nothing outside the unit it addresses: set_bit at most
\* the one bit of the byte at address, set_byte the byte at address, set_word
\* and set_dword the 2 and 4 bytes from address; the get methods,
\* find_variable, get_device_info and get_device_info_list leave the image
\* as it was.
C30_Frame ==
    [][/\ call'.op = "set_bit" =>
             /\ SameOutside(image, image', {call'.address})
             /\ \A k \in 0..(U8_BITS - 1) :
                    k # call'.bit =>
                        BitOf(ImgAt(image', call'.address), k)
                            = BitOf(ImgAt(image, call'.address), k)
       /\ call'.op = "set_byte" => SameOutside(image, image', {call'.address})
       /\ call'.op \in {"set_word", "set_dword"} =>
             SameOutside(image, image',
                         call'.address..(call'.address + SizeOf(call'.op) - 1))
       /\ call'.op \in ReadOps => image' = image]_vars

\* bit 7 of byte 0 of the preset image is cleared: 221 becomes 93 and the
\* three bytes after it keep their values
C30_Witness ==
    /\ call.op = "set_bit"
    /\ call.address = 0
    /\ call.bit = 7
    /\ ~call.flag
    /\ result = OkUnit
    /\ ImgAt(image, 0) = 93
    /\ ImgAt(image, 1) = 204
    /\ ImgAt(image, 2) = 187
    /\ ImgAt(image, 3) = 170

====
